---- MODULE Spec2Model ----
(***************************************************************************)
(* A model of the UI-diff analyzer: the configuration store kept in        *)
(* localStorage (services/configService.ts), the analysis call with its    *)
(* model fallback chain (services/geminiService.ts), the style extractor   *)
(* it calls (services/figmaService.ts) and the error-message table.        *)
(*                                                                         *)
(* Strings the code trims, searches or slices (model names, URLs, error    *)
(* messages) are sequences of one-character strings.  A model response is  *)
(* a sequence of lexical pieces (see Responses).  The fixed Chinese        *)
(* messages the code produces are one-piece sequences naming the message.  *)
(***************************************************************************)
EXTENDS Integers, Sequences, FiniteSets, TLC

VARIABLES
    envApiKey,      \* process.env.API_KEY || '' (configService.ts:13)
    storage,        \* localStorage[STORAGE_KEY]: <<>> when absent, <<list>> when set
    nextId,         \* number of ids addApiConfig has generated so far
    lastOp,         \* the last store operation, its arguments and its outcome
    edits,          \* number of store mutations done so far
    pc,             \* where the analyzeUiDifferences call stands
    args,           \* its arguments: configId, figmaUrl, figmaStyleInfo
    activeConfig,   \* its `config`: <<>> for null, else <<profile>>
    extractConfig,  \* the `config` of the extractFigmaStyles it called, likewise
    styleInfo,      \* its extractedStyleInfo: <<>> for null, else <<style>>
    extractorCalls, \* how many times it has called extractFigmaStyles
    styleContext,   \* the style text its prompt carries: <<>> for ''
    validModels,    \* its validModels
    tier,           \* the loop index of the model loop that is running (from 1)
    attempts,       \* every generateContent request issued, in order, with its end
    lastError,      \* its lastError: <<>> for null, else <<error>>
    lastEnd,        \* how the analysis request that settled last has ended
    outcome,        \* how the call settled
    thrown,         \* an error handed to getFriendlyErrorMessage on its own
    friendly,       \* what it returned: <<>> before the call, else <<message>>
    designImage,    \* App state designImage: <<>> for null, else <<image>>
    implImage,      \* App state implImage, likewise
    figmaUrl,       \* App state figmaUrl, a string
    status,         \* App state status, an AppState
    result,         \* App state result: <<>> for null, else <<AnalysisResult>>
    errorMsg,       \* App state errorMsg: <<>> for ''
    selectedIssueIndex, \* App state selectedIssueIndex: <<>> for null, else <<index>>
    run,            \* the handleAnalysis in flight: where it stands, what it closed over
    view,           \* what the last render of App put on the page
    urlHistory,     \* localStorage[FIGMA_URL_HISTORY_KEY], parsed: a list of URLs
    saved,          \* every URL saveFigmaUrlToHistory was called with, in order
    saves,          \* number of saveFigmaUrlToHistory calls made directly
    markerIssue,    \* the issue and index props of an IssueMarker on its own
    markerOut,      \* what it rendered: <<>> before the render, else <<output>>
    imgIn,          \* the image handed to compressImage on its own
    imgOut,         \* the image it resolved with: <<>> before it settles
    styleIn,        \* the argument of formatStyleInfo on its own: <<>> for null
    styleText,      \* what it returned: <<>> before the call, else <<text>>
    cropIn,         \* the box and the image of a CroppedImage on its own
    cropOut,        \* what it rendered and what its load handler computed
    modelIn,        \* the model name of one attempt of the analysis loop on its own
    requestOut,     \* the request runAnalysis built for it: <<>> before, else <<request>>
    hoveredIndex,   \* ImageAnnotator's state: <<>> for null, else <<index>>
    hoverTimeoutRef, \* hoverTimeoutRef.current: <<>> for null, else <<timer id>>
    hoverTimers,    \* the timers of window.setTimeout that are pending
    hoverNow,       \* the time, in ms
    hoverEvents,    \* the enter and leave events so far, in order
    hoverSets       \* the calls of setHoveredIndex so far, in order

-----------------------------------------------------------------------------
(* Bounds of the model *)

\* ids addApiConfig may generate in one behaviour
MaxAdds == 3
\* longest model list given to addApiConfig / updateApiConfig
MaxModels == 2
\* store mutations that may run beside one analysis call
MaxEdits == 2
\* longest error text enumerated character by character
MaxTextLen == 4

-----------------------------------------------------------------------------
(* Texts *)

WS == " "

NL == "\n"

\* the white space String.prototype.trim removes
IsSpace(p) == p \in {WS, NL}

RECURSIVE TrimStart(_)
TrimStart(s) ==
    IF s # <<>> /\ IsSpace(Head(s)) THEN TrimStart(Tail(s)) ELSE s

RECURSIVE TrimEnd(_)
TrimEnd(s) ==
    IF s # <<>> /\ IsSpace(s[Len(s)]) THEN TrimEnd(SubSeq(s, 1, Len(s) - 1)) ELSE s

\* String.prototype.trim
Trim(s) == TrimEnd(TrimStart(s))

\* all sequences over S of length at most n
RECURSIVE SeqsUpTo(_, _)
SeqsUpTo(S, n) ==
    IF n = 0 THEN {<<>>}
    ELSE LET shorter == SeqsUpTo(S, n - 1)
         IN  shorter \cup {Append(s, x) : s \in shorter, x \in S}

-----------------------------------------------------------------------------
(* Configuration store: services/configService.ts *)

DEFAULT_CONFIG_ID == "pixelperfect_default_config"

\* the ids `config_${Date.now()}_${random}` yields, in order of generation
GeneratedIds == <<"config_1", "config_2", "config_3", "config_4", "config_5">>

\* the model list of the environment profile
DefaultModels ==
    << <<"g", "e", "m", "i", "n", "i", "-", "3", "-", "p", "r", "o", "-", "p", "r", "e", "v", "i", "e", "w">>,
       <<"g", "e", "m", "i", "n", "i", "-", "2", ".", "5", "-", "f", "l", "a", "s", "h", "-", "i", "m", "a", "g", "e">>,
       <<"g", "e", "m", "i", "n", "i", "-", "3", "-", "f", "l", "a", "s", "h", "-", "p", "r", "e", "v", "i", "e", "w">> >>

\* a profile; name and baseUrl are carried along with apiKey and are left out
Profile(id, apiKey, models, isDefault) ==
    [id |-> id, apiKey |-> apiKey, models |-> models, isDefault |-> isDefault]

getDefaultConfig == Profile(DEFAULT_CONFIG_ID, envApiKey, DefaultModels, TRUE)

\* a faulty filter that lets the environment profile through
NotSentinel_KeepAll(c) == TRUE

\* the filter c => c.id !== DEFAULT_CONFIG_ID
NotSentinel(c) == c.id # DEFAULT_CONFIG_ID

getApiConfigs ==
    IF storage = <<>>
    THEN <<getDefaultConfig>>
    ELSE LET savedConfigs == storage[1]
             hasDefault == \E k \in 1..Len(savedConfigs) : savedConfigs[k].isDefault
             defaultConfig == IF ~hasDefault
                              THEN [getDefaultConfig EXCEPT !.isDefault = TRUE]
                              ELSE getDefaultConfig
         IN  <<defaultConfig>> \o savedConfigs

\* the value saveApiConfigs(configs) writes under STORAGE_KEY
saveApiConfigs(configs) == << SelectSeq(configs, NotSentinel) >>

\* a search that gives the last position that satisfies the test
FindIndex_Last(hits) ==
    IF hits = {} THEN 0 ELSE CHOOSE k \in hits : \A j \in hits : k >= j

\* Array.prototype.findIndex and find, given the positions that satisfy the test:
\* the first of them, 0 when there is none
FindIndex(hits) ==
    IF hits = {} THEN 0 ELSE CHOOSE k \in hits : \A j \in hits : k <= j

\* the positions of `configs` holding the id, holding a profile marked default,
\* holding a custom profile
HasId(configs, id) == {k \in 1..Len(configs) : configs[k].id = id}
IsDefault(configs) == {k \in 1..Len(configs) : configs[k].isDefault}
IsCustom(configs) == {k \in 1..Len(configs) : configs[k].id # DEFAULT_CONFIG_ID}

\* what a store operation reports: its name, its id argument, whether it threw
OpRecord(op, id, threw) == [op |-> op, id |-> id, threw |-> threw]

\* addApiConfig(config), config = [apiKey, models, isDefault]
addApiConfig(config) ==
    /\ nextId < MaxAdds
    /\ LET configs == getApiConfigs
           id == GeneratedIds[nextId + 1]
           newConfig == Profile(id, config.apiKey, config.models, config.isDefault)
           customConfigs == SelectSeq(configs, NotSentinel)
           flagged == IF Len(customConfigs) = 0
                      THEN [newConfig EXCEPT !.isDefault = TRUE]
                      ELSE newConfig
           updatedConfigs == SelectSeq(configs, NotSentinel) \o <<flagged>>
       IN  /\ storage' = saveApiConfigs(updatedConfigs)
           /\ lastOp' = OpRecord("add", id, FALSE)
    /\ nextId' = nextId + 1
    /\ UNCHANGED envApiKey

\* { ...profile, ...updates }: updates is a function on a subset of the fields
Merge(profile, updates) ==
    [f \in DOMAIN profile |-> IF f \in DOMAIN updates THEN updates[f] ELSE profile[f]]

\* updateApiConfig(id, updates)
updateApiConfig(id, updates) ==
    /\ LET configs == getApiConfigs
           index == FindIndex(HasId(configs, id))
       IN  IF index = 0
           THEN UNCHANGED storage
           ELSE LET updated == Merge(configs[index], updates)
                    updatedConfigs == [configs EXCEPT ![index] = updated]
                IN  storage' = saveApiConfigs(SelectSeq(updatedConfigs, NotSentinel))
    /\ lastOp' = OpRecord("update", id, FALSE)
    /\ UNCHANGED <<envApiKey, nextId>>

\* deleteApiConfig(id)
deleteApiConfig(id) ==
    /\ IF id = DEFAULT_CONFIG_ID
       THEN /\ lastOp' = OpRecord("delete", id, TRUE)
            /\ UNCHANGED storage
       ELSE LET configs == getApiConfigs
                Others(c) == c.id # id
                filtered == SelectSeq(configs, Others)
                deleted == FindIndex(HasId(configs, id))
                firstCustom == FindIndex(IsCustom(filtered))
                promoted == IF /\ deleted # 0
                               /\ configs[deleted].isDefault
                               /\ Len(filtered) > 0
                               /\ firstCustom # 0
                            THEN [filtered EXCEPT ![firstCustom].isDefault = TRUE]
                            ELSE filtered
            IN  /\ storage' = saveApiConfigs(SelectSeq(promoted, NotSentinel))
                /\ lastOp' = OpRecord("delete", id, FALSE)
    /\ UNCHANGED <<envApiKey, nextId>>

\* setDefaultConfig(id)
setDefaultConfig(id) ==
    /\ LET configs == getApiConfigs
           updatedConfigs == [k \in 1..Len(configs) |->
                                 [configs[k] EXCEPT !.isDefault = (configs[k].id = id)]]
       IN  storage' = saveApiConfigs(SelectSeq(updatedConfigs, NotSentinel))
    /\ lastOp' = OpRecord("setDefault", id, FALSE)
    /\ UNCHANGED <<envApiKey, nextId>>

\* a resolution that prefers the default profile to the one asked for
getActiveConfig_DefaultFirst(configId) ==
    LET configs == getApiConfigs
        found == IF configId # "" THEN FindIndex(HasId(configs, configId)) ELSE 0
        defaultConfig == FindIndex(IsDefault(configs))
    IN  IF defaultConfig # 0 THEN <<configs[defaultConfig]>>
        ELSE IF found # 0 THEN <<configs[found]>>
        ELSE IF Len(configs) > 0 THEN <<configs[1]>>
        ELSE <<>>

\* getActiveConfig(configId): <<>> for null, <<profile>> otherwise; "" is no id
getActiveConfig(configId) ==
    LET configs == getApiConfigs
        found == IF configId # "" THEN FindIndex(HasId(configs, configId)) ELSE 0
        defaultConfig == FindIndex(IsDefault(configs))
    IN  IF found # 0 THEN <<configs[found]>>
        ELSE IF defaultConfig # 0 THEN <<configs[defaultConfig]>>
        ELSE IF Len(configs) > 0 THEN <<configs[1]>>
        ELSE <<>>

-----------------------------------------------------------------------------
(* Error messages: services/geminiService.ts, ERROR_MAPPINGS *)

\* String.prototype.includes
Includes(text, key) ==
    \E k \in 0..(Len(text) - Len(key)) : SubSeq(text, k + 1, k + Len(key)) = key

\* String.prototype.slice(0, n)
SliceTo(text, n) == SubSeq(text, 1, IF Len(text) < n THEN Len(text) ELSE n)

Key412 == <<"4", "1", "2">>
Key403 == <<"4", "0", "3">>
Key500 == <<"5", "0", "0">>
Key503 == <<"5", "0", "3">>
KeyFailedToFetch == <<"F", "a", "i", "l", "e", "d", " ", "t", "o", " ", "f", "e", "t", "c", "h">>
KeyOverloaded == <<"O", "v", "e", "r", "l", "o", "a", "d", "e", "d">>

\* the messages of the table, and the parts of the generic message
Msg412 == <<"[region not supported, use a proxy or another IP (412 Precondition Failed)]">>
Msg403 == <<"[API Key invalid or without permission, check the configuration (403 Forbidden)]">>
Msg500 == <<"[server failed, image too large or too complex (500 Internal Error)]">>
Msg503 == <<"[service unavailable for now, retry later (503 Service Unavailable)]">>
MsgFailedToFetch == <<"[network request failed, check the network or the proxy]">>
MsgOverloaded == <<"[model overloaded, retry later]">>
GenericPrefix == <<"[analysis service error: ]">>
Ellipsis == <<".", ".", ".">>

\* Object.entries(ERROR_MAPPINGS).  The source writes 412, 403, 500, 503, then the
\* two phrases; a JavaScript object lists its integer-like keys first, in ascending
\* numeric order, then the other keys in insertion order
ERROR_MAPPINGS ==
    << <<Key403, Msg403>>, <<Key412, Msg412>>, <<Key500, Msg500>>, <<Key503, Msg503>>,
       <<KeyFailedToFetch, MsgFailedToFetch>>, <<KeyOverloaded, MsgOverloaded>> >>

SLICE_LIMIT == 100

\* an error value: new Error(message) has name "Error"
ErrorOf(name, message) == [name |-> name, message |-> message]

NameError == <<"E", "r", "r", "o", "r">>
NameSyntaxError == <<"S", "y", "n", "t", "a", "x", "E", "r", "r", "o", "r">>

\* error?.message || String(error): an Error with an empty message prints as its name
MessageOf(error) == IF error.message # <<>> THEN error.message ELSE error.name

\* String.prototype.startsWith
StartsWith(text, key) == Len(key) <= Len(text) /\ SubSeq(text, 1, Len(key)) = key

\* a faulty lookup that matches a key only at the start of the text
getFriendlyErrorMessage_StartsWith(error) ==
    LET msg == MessageOf(error)
        Hit(entry) == StartsWith(msg, entry[1])
        first == IF \E k \in 1..Len(ERROR_MAPPINGS) : Hit(ERROR_MAPPINGS[k])
                 THEN CHOOSE k \in 1..Len(ERROR_MAPPINGS) :
                          /\ Hit(ERROR_MAPPINGS[k])
                          /\ \A j \in 1..(k - 1) : ~Hit(ERROR_MAPPINGS[j])
                 ELSE 0
    IN  IF first # 0 THEN ERROR_MAPPINGS[first][2]
        ELSE GenericPrefix \o SliceTo(msg, SLICE_LIMIT) \o Ellipsis

getFriendlyErrorMessage(error) ==
    LET msg == MessageOf(error)
        Hit(entry) == Includes(msg, entry[1])
        first == IF \E k \in 1..Len(ERROR_MAPPINGS) : Hit(ERROR_MAPPINGS[k])
                 THEN CHOOSE k \in 1..Len(ERROR_MAPPINGS) :
                          /\ Hit(ERROR_MAPPINGS[k])
                          /\ \A j \in 1..(k - 1) : ~Hit(ERROR_MAPPINGS[j])
                 ELSE 0
    IN  IF first # 0 THEN ERROR_MAPPINGS[first][2]
        ELSE GenericPrefix \o SliceTo(msg, SLICE_LIMIT) \o Ellipsis

-----------------------------------------------------------------------------
(* Model responses: what generateContent may do *)

\* A response text is a sequence of lexical pieces: FENCE (three backquotes), the
\* word json, NL, WS, a JSON document, or prose that is no JSON.
FENCE == "[three backquotes]"
JSONWORD == "json"
PROSE == "Here is the comparison"

DocResult85 == "{score:85,summary:close,issues:[{boundingBox:[100,100,200,200]}]}"
DocResult40 == "{score:40,summary:far,issues:[]}"
DocStyle == "{colors:{background:#FFFFFF}}"
\* a JSON document that is no AnalysisResult
DocNoShape == "{answer:the two images look alike}"

\* JSON.parse on one JSON document
JsonValue(doc) ==
    CASE doc = DocResult85 ->
            [score |-> 85, summary |-> "close",
             issues |-> << [boundingBox |-> <<100, 100, 200, 200>>] >>]
      [] doc = DocResult40 -> [score |-> 40, summary |-> "far", issues |-> <<>>]
      [] doc = DocStyle -> [colors |-> [background |-> "#FFFFFF"]]
      [] doc = DocNoShape -> [answer |-> "the two images look alike"]

JsonDocs == {DocResult85, DocResult40, DocStyle, DocNoShape}

\* JSON.parse(text): <<>> when it throws a SyntaxError, else <<value>>
JsonParse(text) ==
    IF Len(text) = 1 /\ text[1] \in JsonDocs THEN <<JsonValue(text[1])>> ELSE <<>>

\* text.replace(/FENCE json NL? | NL? FENCE/g, ""): at each position the first
\* alternative is tried before the second
RECURSIVE StripFences(_)
StripFences(text) ==
    IF text = <<>> THEN <<>>
    ELSE IF Len(text) >= 2 /\ text[1] = FENCE /\ text[2] = JSONWORD
    THEN IF Len(text) >= 3 /\ text[3] = NL
         THEN StripFences(SubSeq(text, 4, Len(text)))
         ELSE StripFences(SubSeq(text, 3, Len(text)))
    ELSE IF Len(text) >= 2 /\ text[1] = NL /\ text[2] = FENCE
    THEN StripFences(SubSeq(text, 3, Len(text)))
    ELSE IF text[1] = FENCE
    THEN StripFences(Tail(text))
    ELSE <<text[1]>> \o StripFences(Tail(text))

\* what a generateContent request may end in
Threw(message) == [type |-> "throw", message |-> message, text |-> <<>>]
Responded(text) == [type |-> "respond", message |-> <<>>, text |-> text]

TextNoResponse == <<"N", "o", " ", "r", "e", "s", "p", "o", "n", "s", "e", " ", "f", "r", "o", "m", " ", "A", "I">>
\* the message of JSON.parse's SyntaxError (its wording is the engine's)
TextUnexpectedToken == <<"U", "n", "e", "x", "p", "e", "c", "t", "e", "d", " ", "t", "o", "k", "e", "n">>
TextForbidden == <<"g", "o", "t", " ", "s", "t", "a", "t", "u", "s", ":", " ", "4", "0", "3", " ", "F", "o", "r", "b", "i", "d", "d", "e", "n">>
TextTimeout == <<"t", "i", "m", "e", "o", "u", "t">>

\* what a model loop makes of a settled request
Succeeded(value) == [ok |-> TRUE, value |-> <<value>>, error |-> <<>>]
Failed(error) == [ok |-> FALSE, value |-> <<>>, error |-> <<error>>]

\* a runAnalysis that parses the text as it came, fences and all
runAnalysis_NoStrip(end) ==
    IF end.type = "throw" THEN Failed(ErrorOf(NameError, end.message))
    ELSE IF end.text = <<>> THEN Failed(ErrorOf(NameError, TextNoResponse))
    ELSE LET parsed == JsonParse(Trim(end.text))
         IN  IF parsed = <<>>
             THEN Failed(ErrorOf(NameSyntaxError, TextUnexpectedToken))
             ELSE Succeeded(parsed[1])

\* runAnalysis from the settling of its request on; the body of the try block of
\* extractFigmaStyles' loop is the same
runAnalysis(end) ==
    IF end.type = "throw" THEN Failed(ErrorOf(NameError, end.message))
    ELSE IF end.text = <<>> THEN Failed(ErrorOf(NameError, TextNoResponse))
    ELSE LET cleanedText == Trim(StripFences(end.text))
             parsed == JsonParse(cleanedText)
         IN  IF parsed = <<>>
             THEN Failed(ErrorOf(NameSyntaxError, TextUnexpectedToken))
             ELSE Succeeded(parsed[1])

-----------------------------------------------------------------------------
(* Style text: services/figmaService.ts, formatStyleInfo *)

\* A FigmaStyleInfo is a record holding some of the fields colors, spacing,
\* dimensions, typography, text; a field that is absent or null is left out.  The
\* formatted text is the sequence of its lines (parts.join), <<>> for ''; a line
\* is <<section, items>>.
Has(r, f) == f \in DOMAIN r

\* the keys of colors, in the order Object.entries lists them (the order of the
\* extraction prompt, figmaService.ts:58-60)
ColorKeys == <<"background", "text", "border">>

\* value || 0
OrZero(r, f) == IF Has(r, f) THEN r[f] ELSE 0

\* `${p.top || 0}px ${p.right || 0}px ${p.bottom || 0}px ${p.left || 0}px`
FourSides(name, p) ==
    <<name, OrZero(p, "top"), OrZero(p, "right"), OrZero(p, "bottom"), OrZero(p, "left")>>

\* the items of a section: for each key of `keys` that the object holds with a
\* truthy value (one that is not `falsy`: 0, '' or an empty array), <<key, value>>
RECURSIVE TruthyItems(_, _, _)
TruthyItems(r, keys, falsy) ==
    IF keys = <<>> THEN <<>>
    ELSE LET k == Head(keys)
             rest == TruthyItems(r, Tail(keys), falsy)
         IN  IF Has(r, k) /\ r[k] # falsy THEN << <<k, r[k]>> >> \o rest ELSE rest

\* a line for every section looked at, with items or without
Part_Always(section, items) == << <<section, items>> >>

\* a section's line, when it has items
Part(section, items) == IF items = <<>> THEN <<>> ELSE << <<section, items>> >>

\* formatStyleInfo(styleInfo): the argument is <<>> for null, else <<info>>
formatStyleInfo(style) ==
    IF style = <<>> THEN <<>>
    ELSE LET info == style[1]
             colors ==
                 IF Has(info, "colors") /\ DOMAIN info.colors # {}
                 THEN Part("colors", TruthyItems(info.colors, ColorKeys, ""))
                 ELSE <<>>
             spacing ==
                 IF Has(info, "spacing")
                 THEN LET sp == info.spacing
                      IN  Part("spacing",
                            (IF Has(sp, "padding") THEN <<FourSides("padding", sp.padding)>> ELSE <<>>)
                            \o (IF Has(sp, "margin") THEN <<FourSides("margin", sp.margin)>> ELSE <<>>)
                            \o TruthyItems(sp, <<"gap">>, 0))
                 ELSE <<>>
             dimensions ==
                 IF Has(info, "dimensions")
                 THEN Part("dimensions",
                           TruthyItems(info.dimensions, <<"width", "height", "borderRadius">>, 0))
                 ELSE <<>>
             typography ==
                 IF Has(info, "typography")
                 THEN Part("typography",
                           TruthyItems(info.typography, <<"fontFamily">>, "")
                           \o TruthyItems(info.typography,
                                          <<"fontSize", "fontWeight", "lineHeight">>, 0))
                 ELSE <<>>
             text ==
                 IF Has(info, "text")
                 THEN Part("text", TruthyItems(info.text, <<"chinese", "english">>, <<>>))
                 ELSE <<>>
         IN  colors \o spacing \o dimensions \o typography \o text

-----------------------------------------------------------------------------
(* The store on its own: any sequence of store operations *)

\* ids a caller may name: the sentinel's and those generated so far (a generated id
\* is random, so no caller holds it before addApiConfig has returned it)
KnownIds == {DEFAULT_CONFIG_ID} \cup {GeneratedIds[k] : k \in 1..nextId}

\* profiles given to addApiConfig in the store specification
\* (the configuration form passes no isDefault: the field is absent, hence falsy)
StoreProfiles ==
    [apiKey : {"", "key-1"}, models : {<<>>, DefaultModels}, isDefault : {FALSE}]

\* updates given to updateApiConfig: the form's (apiKey, models), or one field alone
StoreUpdates ==
    [apiKey : {"", "key-2"}, models : {<<>>, DefaultModels}]
        \cup [apiKey : {"key-2"}] \cup [models : {<<>>}]

InitStore ==
    /\ envApiKey \in {"", "env-key"}
    /\ storage = <<>>
    /\ nextId = 0
    /\ lastOp = OpRecord("none", "", FALSE)
    /\ edits = 0

NoArgs == [configId |-> "", figmaUrl |-> <<>>, figmaStyleInfo |-> <<>>]

Pending == [kind |-> "pending"]

\* no analysis request has settled yet
NoEnd == [type |-> "none", message |-> <<>>, text |-> <<>>]

InitCall ==
    /\ pc = "idle"
    /\ args = NoArgs
    /\ activeConfig = <<>>
    /\ extractConfig = <<>>
    /\ styleInfo = <<>>
    /\ extractorCalls = 0
    /\ styleContext = <<>>
    /\ validModels = <<>>
    /\ tier = 0
    /\ attempts = <<>>
    /\ lastError = <<>>
    /\ lastEnd = NoEnd
    /\ outcome = Pending

\* no handleAnalysis is in flight
NoRun ==
    [pc |-> "none", designImage |-> <<>>, implImage |-> <<>>, figmaUrl |-> <<>>,
     extractedStyleInfo |-> <<>>, extractions |-> 0]

\* the page of the first render: status IDLE, nothing selected, no result
IdleView ==
    [panel |-> "IDLE", message |-> <<>>, imageUrl |-> <<>>, designImageUrl |-> <<>>,
     markers |-> <<>>, rows |-> <<>>, ignoredRows |-> <<>>]

InitApp ==
    /\ designImage = <<>>
    /\ implImage = <<>>
    /\ figmaUrl = <<>>
    /\ status = "IDLE"
    /\ result = <<>>
    /\ errorMsg = <<>>
    /\ selectedIssueIndex = <<>>
    /\ run = NoRun
    /\ view = IdleView

InitHist == urlHistory = <<>> /\ saved = <<>> /\ saves = 0

InitMarker == markerIssue = <<>> /\ markerOut = <<>>

InitCompress == imgIn = <<>> /\ imgOut = <<>>

InitFormat == styleIn = <<>> /\ styleText = <<>>

InitCrop == cropIn = <<>> /\ cropOut = <<>>

InitSchema == modelIn = <<>> /\ requestOut = <<>>

InitHover ==
    /\ hoveredIndex = <<>>
    /\ hoverTimeoutRef = <<>>
    /\ hoverTimers = {}
    /\ hoverNow = 0
    /\ hoverEvents = <<>>
    /\ hoverSets = <<>>

InitPure == InitFormat /\ InitCrop /\ InitSchema /\ InitHover

InitUi == InitApp /\ InitHist /\ InitMarker /\ InitCompress /\ InitPure

storeVars == <<envApiKey, storage, nextId, lastOp, edits>>

callVars ==
    <<pc, args, activeConfig, extractConfig, styleInfo, extractorCalls, styleContext,
      validModels, tier, attempts, lastError, lastEnd, outcome>>

errVars == <<thrown, friendly>>

appVars ==
    <<designImage, implImage, figmaUrl, status, result, errorMsg, selectedIssueIndex,
      run, view>>

histVars == <<urlHistory, saved, saves>>

markerVars == <<markerIssue, markerOut>>

compressVars == <<imgIn, imgOut>>

formatVars == <<styleIn, styleText>>

cropVars == <<cropIn, cropOut>>

schemaVars == <<modelIn, requestOut>>

hoverVars ==
    <<hoveredIndex, hoverTimeoutRef, hoverTimers, hoverNow, hoverEvents, hoverSets>>

pureVars == <<formatVars, cropVars, schemaVars, hoverVars>>

uiVars == <<appVars, histVars, markerVars, compressVars, pureVars>>

vars == <<storeVars, callVars, errVars, uiVars>>

NoError == ErrorOf(NameError, <<>>)

InitErr == thrown = NoError /\ friendly = <<>>

Init == InitStore /\ InitCall /\ InitErr /\ InitUi

Add == \E config \in StoreProfiles : addApiConfig(config) /\ UNCHANGED <<edits, callVars, errVars, uiVars>>

Update ==
    \E id \in KnownIds, updates \in StoreUpdates :
        updateApiConfig(id, updates) /\ UNCHANGED <<edits, callVars, errVars, uiVars>>

Delete == \E id \in KnownIds : deleteApiConfig(id) /\ UNCHANGED <<edits, callVars, errVars, uiVars>>

SetDefault == \E id \in KnownIds : setDefaultConfig(id) /\ UNCHANGED <<edits, callVars, errVars, uiVars>>

Next == Add \/ Update \/ Delete \/ SetDefault

Spec == Init /\ [][Next]_vars

-----------------------------------------------------------------------------
(* The analysis call: services/geminiService.ts, analyzeUiDifferences, and the
   extractFigmaStyles it calls, services/figmaService.ts.  An action runs from one
   await to the next. *)

MsgNoConfig == <<"[no usable API configuration, add one first]">>
MsgNoApiKey == <<"[API Key not set, check the configuration]">>
MsgNoValidModels == <<"[no valid model name in the configuration, check its model list]">>

Rejected(message) == [kind |-> "error", message |-> message]
Resolved(value) == [kind |-> "result", value |-> value]

\* one generateContent request: who asked, for which model, with which key
Request(kind, model, apiKey, n) ==
    [kind |-> kind, model |-> model, apiKey |-> apiKey, tier |-> n,
     state |-> "inflight", text |-> <<>>]

\* the log with the request of loop `kind` at index n marked as settled; a request
\* that succeeded keeps the response text it got
Settle(log, kind, n, end, ran) ==
    [k \in 1..Len(log) |->
        IF log[k].kind = kind /\ log[k].tier = n /\ log[k].state = "inflight"
        THEN IF ran.ok
             THEN [log[k] EXCEPT !.state = "ok", !.text = end.text]
             ELSE [log[k] EXCEPT !.state = "failed"]
        ELSE log[k]]

\* models.map(m => m.trim())
RECURSIVE TrimAll(_)
TrimAll(models) ==
    IF models = <<>> THEN <<>> ELSE <<Trim(Head(models))>> \o TrimAll(Tail(models))

NonEmpty(m) == Len(m) > 0

\* models.map(m => m.trim()).filter(m => m.length > 0)
ValidModels(models) == SelectSeq(TrimAll(models), NonEmpty)

\* a chain that walks the list from its end
IssueTier_Reversed(log, kind, models, apiKey, n) ==
    Append(log, Request(kind, models[Len(models) + 1 - n], apiKey, n))

\* a chain that asks the next model as well, without waiting
IssueTier_Eager(log, kind, models, apiKey, n) ==
    IF n < Len(models)
    THEN log \o <<Request(kind, models[n], apiKey, n),
                  Request(kind, models[n + 1], apiKey, n + 1)>>
    ELSE Append(log, Request(kind, models[n], apiKey, n))

\* a chain that asks every model twice
IssueTier_Twice(log, kind, models, apiKey, n) ==
    log \o <<Request(kind, models[n], apiKey, n), Request(kind, models[n], apiKey, n)>>

\* the request an iteration of a model loop issues: ai.models.generateContent for
\* the model at index n (from 1)
IssueTier(log, kind, models, apiKey, n) ==
    Append(log, Request(kind, models[n], apiKey, n))

\* a loop that gives up at the first failure
AfterFailure_NoFallback(n, count) == "throw"

\* the catch block of the analysis loop: throw on the last model, else go on
AfterFailure(n, count) == IF n = count THEN "throw" ELSE "next"

\* a catch block that reports the failure it had stored before
CallerMessage_Stale(error, previous) ==
    getFriendlyErrorMessage(IF previous # <<>> THEN previous[1] ELSE error)

\* the message of the error the catch block throws: new Error(getFriendlyErrorMessage(error))
CallerMessage(error, previous) == getFriendlyErrorMessage(error)

\* lines 436-542: the prompt is built, the model list checked, the first model asked
BeginChain(style, log) ==
    LET models == activeConfig[1].models
        valid == ValidModels(models)
    IN  /\ styleInfo' = style
        /\ styleContext' = formatStyleInfo(style)
        /\ validModels' = valid
        /\ lastError' = <<>>
        /\ IF Len(valid) = 0
           THEN /\ pc' = "rejected"
                /\ outcome' = Rejected(MsgNoValidModels)
                /\ tier' = 0
                /\ attempts' = log
           ELSE /\ pc' = "analyzing"
                /\ tier' = 1
                /\ attempts' = IssueTier(log, "analyze", valid, activeConfig[1].apiKey, 1)
                /\ UNCHANGED outcome

\* lines 406-428: the profile is resolved and checked, the images start to load
analyzeUiDifferences(a) ==
    /\ pc = "idle"
    /\ args' = a
    /\ LET resolved == getActiveConfig(a.configId)
       IN  /\ activeConfig' = resolved
           /\ IF resolved = <<>>
              THEN pc' = "rejected" /\ outcome' = Rejected(MsgNoConfig)
              ELSE IF resolved[1].apiKey = ""
              THEN pc' = "rejected" /\ outcome' = Rejected(MsgNoApiKey)
              ELSE pc' = "compressing" /\ UNCHANGED outcome
    /\ UNCHANGED <<extractConfig, styleInfo, extractorCalls, styleContext, validModels,
                   tier, attempts, lastError, lastEnd>>

\* an extractor that goes on with a profile that has no apiKey
HasCredentials_AnyProfile(resolved) == resolved # <<>>

\* !config || !config.apiKey, negated (figmaService.ts:38)
HasCredentials(resolved) == resolved # <<>> /\ resolved[1].apiKey # ""

\* a call that extracts whenever there is a URL, a style passed in or not
ShouldExtract_Always(extractedStyleInfo, url) == url # <<>>

\* !extractedStyleInfo && figmaUrl (line 432): '' and undefined are both <<>>
ShouldExtract(extractedStyleInfo, url) == extractedStyleInfo = <<>> /\ url # <<>>

\* lines 425-434, and extractFigmaStyles up to its first request
compressed ==
    /\ pc = "compressing"
    /\ extractorCalls' =
          IF ShouldExtract(args.figmaStyleInfo, args.figmaUrl)
          THEN extractorCalls + 1 ELSE extractorCalls
    /\ IF ShouldExtract(args.figmaStyleInfo, args.figmaUrl)
       THEN IF Trim(args.figmaUrl) = <<>>
            THEN BeginChain(<<>>, attempts) /\ UNCHANGED extractConfig
            ELSE LET resolved == getActiveConfig(args.configId)
                 IN  /\ extractConfig' = resolved
                     /\ IF ~HasCredentials(resolved)
                        THEN BeginChain(<<>>, attempts)
                        ELSE IF resolved[1].models = <<>>
                        THEN BeginChain(<<>>, attempts)
                        ELSE /\ pc' = "extracting"
                             /\ tier' = 1
                             /\ attempts' = IssueTier(attempts, "extract",
                                                TrimAll(resolved[1].models),
                                                resolved[1].apiKey, 1)
                             /\ UNCHANGED <<styleInfo, styleContext, validModels,
                                            lastError, outcome>>
       ELSE BeginChain(args.figmaStyleInfo, attempts) /\ UNCHANGED extractConfig
    /\ UNCHANGED <<args, activeConfig, lastEnd>>

\* figmaService.ts lines 124-160: a request of extractFigmaStyles settles
extractionSettled(end) ==
    /\ pc = "extracting"
    /\ LET ran == runAnalysis(end)
           log == Settle(attempts, "extract", tier, end, ran)
           models == extractConfig[1].models
       IN  IF ran.ok
           THEN BeginChain(ran.value, log)
           ELSE IF tier < Len(models)
           THEN /\ tier' = tier + 1
                /\ attempts' = IssueTier(log, "extract", TrimAll(models),
                                          extractConfig[1].apiKey, tier + 1)
                /\ UNCHANGED <<pc, styleInfo, styleContext, validModels, lastError, outcome>>
           ELSE BeginChain(<<>>, log)
    /\ UNCHANGED <<args, activeConfig, extractConfig, extractorCalls, lastEnd>>

\* lines 536-555: a request of the analysis loop settles
analysisSettled(end) ==
    /\ pc = "analyzing"
    /\ lastEnd' = end
    /\ LET ran == runAnalysis(end)
           log == Settle(attempts, "analyze", tier, end, ran)
       IN  IF ran.ok
           THEN /\ pc' = "resolved"
                /\ outcome' = Resolved(ran.value[1])
                /\ attempts' = log
                /\ UNCHANGED <<tier, lastError>>
           ELSE /\ lastError' = ran.error
                /\ IF AfterFailure(tier, Len(validModels)) = "throw"
                   THEN /\ pc' = "rejected"
                        /\ outcome' = Rejected(CallerMessage(ran.error[1], lastError))
                        /\ attempts' = log
                        /\ UNCHANGED tier
                   ELSE /\ tier' = tier + 1
                        /\ attempts' = IssueTier(log, "analyze", validModels,
                                                  activeConfig[1].apiKey, tier + 1)
                        /\ UNCHANGED <<pc, outcome>>
    /\ UNCHANGED <<args, activeConfig, extractConfig, styleInfo, extractorCalls,
                   styleContext, validModels>>

-----------------------------------------------------------------------------
(* One analysis call, with store operations running beside it *)

\* model names a profile may hold.  addApiConfig and updateApiConfig take any list
\* of strings; a blank name and a padded one are the cases the trim and the filter
\* of geminiService.ts:514 are written for
ModelNames == { <<WS>>, <<WS, "a", WS>> }

ModelListInputs == SeqsUpTo(ModelNames, MaxModels)

CallProfiles == [apiKey : {"key-1"}, models : ModelListInputs, isDefault : {FALSE}]

CallUpdates == [apiKey : {"key-2"}, models : ModelListInputs]

UrlInputs == { <<>>, <<WS>>, <<"u">> }

StyleInputs == { <<>>, <<JsonValue(DocStyle)>> }

\* the App passes a style only when the URL is not blank (App.tsx:88)
ArgInputs ==
    { a \in [configId : {""} \cup KnownIds, figmaUrl : UrlInputs,
             figmaStyleInfo : StyleInputs] :
        a.figmaStyleInfo # <<>> => Trim(a.figmaUrl) # <<>> }

\* how a request of the analysis loop may end
AnalysisEnds ==
    { Threw(TextForbidden), Threw(TextTimeout), Responded(<<>>), Responded(<<PROSE>>),
      Responded(<<DocResult85>>), Responded(<<DocNoShape>>),
      Responded(<<FENCE, JSONWORD, NL, DocResult40, NL, FENCE>>) }

\* how a request of the style extractor may end
ExtractionEnds == { Threw(TextTimeout), Responded(<<>>), Responded(<<DocStyle>>) }

Edited == edits < MaxEdits /\ edits' = edits + 1 /\ UNCHANGED <<callVars, errVars, uiVars>>

AddBeside == \E profile \in CallProfiles : addApiConfig(profile) /\ Edited

UpdateBeside ==
    \E id \in KnownIds, updates \in CallUpdates : updateApiConfig(id, updates) /\ Edited

DeleteBeside == \E id \in KnownIds : deleteApiConfig(id) /\ Edited

SetDefaultBeside == \E id \in KnownIds : setDefaultConfig(id) /\ Edited

Analyze == \E a \in ArgInputs : analyzeUiDifferences(a) /\ UNCHANGED <<storeVars, errVars, uiVars>>

Compressed == compressed /\ UNCHANGED <<storeVars, errVars, uiVars>>

ExtractionSettled ==
    \E end \in ExtractionEnds : extractionSettled(end) /\ UNCHANGED <<storeVars, errVars, uiVars>>

AnalysisSettled ==
    \E end \in AnalysisEnds : analysisSettled(end) /\ UNCHANGED <<storeVars, errVars, uiVars>>

NextCall ==
    \/ AddBeside \/ UpdateBeside \/ DeleteBeside \/ SetDefaultBeside
    \/ Analyze \/ Compressed \/ ExtractionSettled \/ AnalysisSettled

SpecCall == Init /\ [][NextCall]_vars

-----------------------------------------------------------------------------
(* getFriendlyErrorMessage on its own *)

ErrChars == {"0", "1", "2", "3", "4", "5"}

Filler(n) == [k \in 1..n |-> "x"]

TableKeys == {ERROR_MAPPINGS[k][1] : k \in 1..Len(ERROR_MAPPINGS)}

\* every short text of digits; a key or nothing between two fillers, so that a text
\* ends before, at and after the slice limit; two keys side by side
ErrTexts ==
    SeqsUpTo(ErrChars, MaxTextLen)
        \cup { Filler(a) \o key \o Filler(b) :
                 a \in {0, 1, 97, 99, 100, 101}, key \in TableKeys \cup {<<>>}, b \in {0, 2} }
        \cup { k1 \o k2 : k1 \in TableKeys, k2 \in TableKeys }

InitFriendly ==
    /\ InitStore /\ InitCall /\ InitUi
    /\ thrown \in {ErrorOf(NameError, text) : text \in ErrTexts}
    /\ friendly = <<>>

Translate ==
    /\ friendly = <<>>
    /\ friendly' = <<getFriendlyErrorMessage(thrown)>>
    /\ UNCHANGED <<storeVars, callVars, thrown, uiVars>>

NextFriendly == Translate

SpecFriendly == InitFriendly /\ [][NextFriendly]_vars

-----------------------------------------------------------------------------
(* Claims about the analysis call *)

IsAnalysis(r) == r.kind = "analyze"

\* the requests of the analysis loop, in the order issued
AnalysisAttempts == SelectSeq(attempts, IsAnalysis)

\* what the caller gets from a response text
ParsedResponse(text) == JsonParse(Trim(StripFences(text)))

\* the call ended in an error of the model chain, not of the configuration
ChainError ==
    /\ pc = "rejected"
    /\ outcome.message \notin {MsgNoConfig, MsgNoApiKey, MsgNoValidModels}

\* C1: the profile's valid model names are attempted in list order, and the first
\* model whose attempt succeeds ends the chain: its parsed result is returned and no
\* model later in the list is invoked in that call.
C1_FirstSuccessEnds ==
    LET A == AnalysisAttempts
    IN  /\ Len(A) <= Len(validModels)
        /\ A # <<>> => validModels = ValidModels(activeConfig[1].models)
        /\ \A k \in 1..Len(A) : A[k].model = validModels[k]
        /\ \A k \in 1..Len(A) : A[k].state = "ok" =>
              /\ k = Len(A)
              /\ pc = "resolved"
              /\ <<outcome.value>> = ParsedResponse(A[k].text)

\* the first model succeeded, the list has more models, none of them was asked
C1_Witness ==
    /\ pc = "resolved"
    /\ Len(AnalysisAttempts) = 1
    /\ Len(validModels) = 3

\* C2: with N valid model names, if the attempts on the first N-1 fail (network,
\* upstream, empty response or parse failure) and the Nth succeeds, the call
\* resolves with the Nth model's parsed result and no error reaches the caller.
C2_FallbackReachesLast ==
    LET A == AnalysisAttempts
        N == Len(validModels)
    IN  /\ (Len(A) = N /\ N > 0 /\ A[N].state = "ok") =>
              /\ \A k \in 1..(N - 1) : A[k].state = "failed"
              /\ outcome = Resolved(ParsedResponse(A[N].text)[1])
        /\ ChainError => (Len(A) = N /\ \A k \in 1..N : A[k].state = "failed")

\* two models failed and the third gave the result
C2_Witness ==
    /\ pc = "resolved"
    /\ Len(validModels) = 3
    /\ Len(AnalysisAttempts) = 3
    /\ lastError # <<>>

\* C3: when every model of the chain fails, the call rejects with one error whose
\* message is derived from the failure of the last model attempted; the failures of
\* the earlier tiers do not influence it.
C3_LastFailureDecides ==
    LET A == AnalysisAttempts
    IN  (A # <<>> /\ Len(A) = Len(validModels) /\ A[Len(A)].state = "failed") =>
            /\ pc = "rejected"
            /\ lastError # <<>>
            /\ outcome = Rejected(getFriendlyErrorMessage(lastError[1]))

\* three models failed, the last with a 403, and the caller reads the 403 message
C3_Witness ==
    /\ pc = "rejected"
    /\ Len(AnalysisAttempts) = 3
    /\ lastError = <<ErrorOf(NameError, TextForbidden)>>
    /\ outcome = Rejected(Msg403)

InFlight == {k \in 1..Len(attempts) : attempts[k].state = "inflight"}

\* C6: the fallback chain is strictly sequential: at most one model request of a
\* call is in flight at any time, and the request for tier n+1 is issued only after
\* the request for tier n has settled with a failure.
C6_OneRequestInFlight ==
    /\ Cardinality(InFlight) <= 1
    /\ \A k \in 2..Len(AnalysisAttempts) : AnalysisAttempts[k - 1].state = "failed"

\* the request of the second tier is in flight
C6_Witness ==
    /\ pc = "analyzing"
    /\ tier = 2
    /\ \E k \in InFlight : attempts[k].kind = "analyze" /\ attempts[k].tier = 2

\* C7: the configuration of a call is a snapshot taken once at call start: a store
\* operation that runs beside the call changes neither the credentials nor the model
\* list a later step of the call uses, its style extraction included.
C7_SnapshotUsedThroughout ==
    /\ \A k \in 1..Len(attempts) : attempts[k].apiKey = activeConfig[1].apiKey
    /\ extractConfig # <<>> =>
          /\ extractConfig[1].apiKey = activeConfig[1].apiKey
          /\ extractConfig[1].models = activeConfig[1].models

\* the profiles with the id asked for, and those marked default, by position
WithId(configs, id) == {k \in 1..Len(configs) : configs[k].id = id}
MarkedDefault(configs) == {k \in 1..Len(configs) : configs[k].isDefault}
Least(S) == CHOOSE k \in S : \A j \in S : k <= j

\* what the call resolves from the profiles `configs` for the id `id`
ResolvesAsClaimed(resolved, configs, id) ==
    IF id # "" /\ WithId(configs, id) # {}
    THEN resolved # <<>> /\ resolved[1].id = id /\ resolved[1] = configs[Least(WithId(configs, id))]
    ELSE IF MarkedDefault(configs) # {}
    THEN resolved = <<configs[Least(MarkedDefault(configs))]>>
    ELSE IF configs # <<>>
    THEN resolved = <<configs[1]>>
    ELSE resolved = <<>>

\* the step that starts a call resolves the profile as claimed, and rejects at once
\* when there is no profile or no apiKey
StartResolves ==
    (pc = "idle" /\ pc' # "idle") =>
        /\ ResolvesAsClaimed(activeConfig', getApiConfigs, args'.configId)
        /\ (activeConfig' = <<>>) => (pc' = "rejected" /\ outcome' = Rejected(MsgNoConfig))
        /\ (activeConfig' # <<>> /\ activeConfig'[1].apiKey = "") =>
               (pc' = "rejected" /\ outcome' = Rejected(MsgNoApiKey))

\* a call that ended for want of a profile or of an apiKey has asked no model
NoRequestWithoutCredentials ==
    (activeConfig = <<>> \/ activeConfig[1].apiKey = "") => (attempts = <<>> /\ pc \in {"idle", "rejected"})

\* C8: getActiveConfig(id) returns the profile with that id when it exists, otherwise
\* the profile marked default, otherwise the first profile; the call fails with a
\* configuration error, issuing no model request, when no profile is resolved or the
\* resolved profile has an empty apiKey.
C8_ActiveConfigResolved ==
    /\ []NoRequestWithoutCredentials
    /\ [][StartResolves]_vars

\* a call that named a stored custom profile runs with it
C8_Witness ==
    /\ pc = "compressing"
    /\ args.configId = GeneratedIds[1]
    /\ activeConfig # <<>>
    /\ activeConfig[1].id = GeneratedIds[1]

-----------------------------------------------------------------------------
(* Claims about the error table *)

\* the table messages of the keys a text contains
MessagesFor(msg) ==
    {ERROR_MAPPINGS[k][2] : k \in {j \in 1..Len(ERROR_MAPPINGS) : Includes(msg, ERROR_MAPPINGS[j][1])}}

\* C4: getFriendlyErrorMessage maps a failure text to the table message of a mapped
\* substring it contains (a text containing 403 gives the forbidden-credentials
\* message), and to the generic message carrying at most the first 100 characters
\* of the text when it contains no mapped substring.
C4_FriendlyMessage ==
    friendly # <<>> =>
        LET msg == MessageOf(thrown)
            out == friendly[1]
        IN  /\ MessagesFor(msg) # {} => out \in MessagesFor(msg)
            /\ Includes(msg, Key403) => out = Msg403
            /\ MessagesFor(msg) = {} =>
                  /\ Len(out) <= Len(GenericPrefix) + SLICE_LIMIT + Len(Ellipsis)
                  /\ \E n \in 0..SLICE_LIMIT :
                        /\ n <= Len(msg)
                        /\ (n < SLICE_LIMIT => n = Len(msg))
                        /\ out = GenericPrefix \o SubSeq(msg, 1, n) \o Ellipsis

\* a text longer than the limit, holding no key, was cut
C4_Witness ==
    /\ friendly # <<>>
    /\ Len(thrown.message) > SLICE_LIMIT
    /\ MessagesFor(thrown.message) = {}
    /\ Len(friendly[1]) = Len(GenericPrefix) + SLICE_LIMIT + Len(Ellipsis)

-----------------------------------------------------------------------------
(* Claims about the store *)

\* positions of getApiConfigs holding a profile marked default
DefaultPositions ==
    {k \in 1..Len(getApiConfigs) : getApiConfigs[k].isDefault}

\* C9: after any sequence of addApiConfig, updateApiConfig, deleteApiConfig and
\* setDefaultConfig, getApiConfigs holds exactly one profile with isDefault = true.
C9_ExactlyOneDefault == Cardinality(DefaultPositions) = 1

\* positions of getApiConfigs holding a profile with the sentinel's id
SentinelPositions ==
    {k \in 1..Len(getApiConfigs) : getApiConfigs[k].id = DEFAULT_CONFIG_ID}

\* the sentinel is in getApiConfigs once, as the environment gives it, and is
\* not in storage
SentinelIntact ==
    /\ SentinelPositions = {1}
    /\ getApiConfigs[1] = Profile(DEFAULT_CONFIG_ID, envApiKey, DefaultModels, TRUE)
    /\ storage # <<>> =>
           \A k \in 1..Len(storage[1]) : storage[1][k].id # DEFAULT_CONFIG_ID

\* a step that is deleteApiConfig on the sentinel's id throws and writes nothing
SentinelDeleteRefused ==
    (lastOp'.op = "delete" /\ lastOp'.id = DEFAULT_CONFIG_ID)
        => (lastOp'.threw /\ storage' = storage)

\* a step that is updateApiConfig on the sentinel's id changes no profile that
\* getApiConfigs returns
SentinelUpdateIgnored ==
    (lastOp'.op = "update" /\ lastOp'.id = DEFAULT_CONFIG_ID)
        => (getApiConfigs' = getApiConfigs)

\* C10: the sentinel profile (id pixelperfect_default_config) is in getApiConfigs
\* after any sequence of store operations, is never written to storage, and cannot
\* be removed or changed: deleteApiConfig on its id throws and leaves the stored
\* list as it was, and updateApiConfig on its id leaves the sentinel that later
\* getApiConfigs calls return unchanged.
C10_SentinelKept ==
    /\ []SentinelIntact
    /\ [][SentinelDeleteRefused /\ SentinelUpdateIgnored]_vars

\* updateApiConfig has been called on the sentinel's id while a custom profile
\* is stored
C10_Witness ==
    /\ lastOp.op = "update"
    /\ lastOp.id = DEFAULT_CONFIG_ID
    /\ storage # <<>>
    /\ Len(storage[1]) > 0

-----------------------------------------------------------------------------
(* Claims about the style context of the call *)

\* the call has got past the image compression
PastCompress ==
    \/ pc \in {"extracting", "analyzing", "resolved"}
    \/ pc = "rejected" /\ outcome.message \notin {MsgNoConfig, MsgNoApiKey}

\* the call's extraction has ended without a style
ExtractionFailed == extractorCalls = 1 /\ pc # "extracting" /\ styleInfo = <<>>

\* C11: analyzeUiDifferences invokes the style extractor if and only if a URL is
\* supplied and no style info was passed in; when the extraction fails the failure
\* does not reach the caller and the model chain still runs, with no style context
\* in its prompt.
C11_ExtractorWhenNeeded ==
    /\ extractorCalls <= 1
    /\ ~PastCompress => extractorCalls = 0
    /\ PastCompress =>
          (extractorCalls = 1 <=> (args.figmaUrl # <<>> /\ args.figmaStyleInfo = <<>>))
    /\ ExtractionFailed =>
          /\ styleContext = <<>>
          /\ pc \in {"analyzing", "resolved", "rejected"}
          /\ validModels # <<>> => AnalysisAttempts # <<>>
          /\ pc = "rejected" =>
                \/ outcome = Rejected(MsgNoValidModels)
                \/ /\ lastError # <<>>
                   /\ AnalysisAttempts[Len(AnalysisAttempts)].state = "failed"
                   /\ outcome = Rejected(getFriendlyErrorMessage(lastError[1]))

\* a request of the extractor failed, no style was found, and the call gave a result
C11_Witness ==
    /\ pc = "resolved"
    /\ extractorCalls = 1
    /\ styleInfo = <<>>
    /\ styleContext = <<>>
    /\ \E k \in 1..Len(attempts) : attempts[k].kind = "extract" /\ attempts[k].state = "failed"

\* the requests of the style extractor, in the order issued
IsExtraction(r) == r.kind = "extract"
ExtractionAttempts == SelectSeq(attempts, IsExtraction)

\* the extractor the call invoked has returned
ExtractionDone == extractorCalls = 1 /\ pc # "extracting"

\* C12: extractFigmaStyles never rejects: it gives null when the URL is empty or
\* white space (without a model request), when no profile with credentials is
\* available, and when every model of the profile's list fails; otherwise it gives
\* the parsed output of the first model, in list order, that returns parseable JSON.
C12_ExtractorDegradesToNull ==
    LET E == ExtractionAttempts
    IN  /\ extractorCalls = 0 => E = <<>>
        /\ \A k \in 1..Len(E) :
              /\ E[k].model = Trim(extractConfig[1].models[k])
              /\ k > 1 => E[k - 1].state = "failed"
              /\ E[k].state = "ok" =>
                    /\ ExtractionDone
                    /\ styleInfo = ParsedResponse(E[k].text)
        /\ ExtractionDone =>
              /\ Trim(args.figmaUrl) = <<>> => (E = <<>> /\ styleInfo = <<>>)
              /\ (extractConfig = <<>> \/ extractConfig[1].apiKey = "") =>
                    (E = <<>> /\ styleInfo = <<>>)
              /\ (E # <<>> /\ E[Len(E)].state = "failed") =>
                    (Len(E) = Len(extractConfig[1].models) /\ styleInfo = <<>>)
              /\ (E = <<>> /\ styleInfo = <<>>) =>
                    \/ Trim(args.figmaUrl) = <<>>
                    \/ extractConfig = <<>>
                    \/ extractConfig[1].apiKey = ""
                    \/ extractConfig[1].models = <<>>
              /\ pc \in {"analyzing", "resolved", "rejected"}
              /\ (pc = "rejected" /\ AnalysisAttempts = <<>>) =>
                    outcome = Rejected(MsgNoValidModels)

\* the extractor's first model failed and its second gave the style
C12_Witness ==
    /\ ExtractionDone
    /\ Len(ExtractionAttempts) = 2
    /\ ExtractionAttempts[1].state = "failed"
    /\ ExtractionAttempts[2].state = "ok"
    /\ styleInfo = <<JsonValue(DocStyle)>>

\* the extractor found the profile without an apiKey and gave null
C12_WitnessNoCredentials ==
    /\ ExtractionDone
    /\ extractConfig # <<>>
    /\ extractConfig[1].apiKey = ""

-----------------------------------------------------------------------------
(* Claims about the parsing of a response *)

\* the AnalysisResult shape: a score, a summary and an issues sequence
HasShape(value) == {"score", "summary", "issues"} \subseteq DOMAIN value

\* C13: every value analyzeUiDifferences resolves with has the AnalysisResult
\* shape; a response that parses as JSON but lacks that shape is that tier's
\* failure and is never returned to the caller.
C13_ResultHasShape ==
    /\ pc = "resolved" => HasShape(outcome.value)
    /\ \A k \in 1..Len(AnalysisAttempts) :
          AnalysisAttempts[k].state = "ok" =>
              HasShape(ParsedResponse(AnalysisAttempts[k].text)[1])

\* the response is a non-empty text that parses as JSON once its fences are stripped
Parses(end) == end.type = "respond" /\ end.text # <<>> /\ ParsedResponse(end.text) # <<>>

\* the error a request that ended so leaves to its tier
ErrorOfEnd(end) ==
    IF end.type = "throw" THEN ErrorOf(NameError, end.message)
    ELSE IF end.text = <<>> THEN ErrorOf(NameError, TextNoResponse)
    ELSE ErrorOf(NameSyntaxError, TextUnexpectedToken)

\* the number of analysis requests that have settled
SettledAnalyses ==
    Cardinality({k \in 1..Len(AnalysisAttempts) : AnalysisAttempts[k].state # "inflight"})

\* C14: a tier succeeds exactly when the model returns non-empty text that parses
\* as JSON after its code fences are stripped (fenced JSON is accepted); an empty
\* or unparseable response is the tier's failure, which starts the next tier when
\* one remains and becomes the caller's error only on the last tier.
C14_TierSucceedsIffParses ==
    LET A == AnalysisAttempts
        n == SettledAnalyses
    IN  n >= 1 =>
          /\ A[n].state = "ok" <=> Parses(lastEnd)
          /\ A[n].state = "ok" =>
                (pc = "resolved" /\ outcome = Resolved(ParsedResponse(lastEnd.text)[1]))
          /\ (A[n].state = "failed" /\ n < Len(validModels)) =>
                /\ pc = "analyzing"
                /\ outcome = Pending
                /\ Len(A) = n + 1
                /\ A[n + 1].model = validModels[n + 1]
          /\ (A[n].state = "failed" /\ n = Len(validModels)) =>
                /\ pc = "rejected"
                /\ outcome = Rejected(getFriendlyErrorMessage(ErrorOfEnd(lastEnd)))

\* the first model threw and the second answered with fenced JSON, which was taken
C14_Witness ==
    /\ pc = "resolved"
    /\ Len(AnalysisAttempts) = 2
    /\ AnalysisAttempts[1].state = "failed"
    /\ lastEnd = Responded(<<FENCE, JSONWORD, NL, DocResult40, NL, FENCE>>)
    /\ outcome = Resolved(JsonValue(DocResult40))

-----------------------------------------------------------------------------
(* Annotation overlay: components/ImageAnnotator.tsx, IssueMarker *)

\* renders of one marker in one behaviour
MaxRenders == 2

\* the number num / den, as a CSS percentage
Pct(num, den) == [num |-> num, den |-> den]

AtLeast(p, n) == p.num >= n * p.den

AtMost(p, n) == p.num <= n * p.den

\* a style whose numbers are the coordinates themselves, not their tenth
MarkerStyle_Unscaled(ymin, xmin, ymax, xmax) ==
    [top |-> Pct(ymin, 1), left |-> Pct(xmin, 1),
     height |-> Pct(ymax - ymin, 1), width |-> Pct(xmax - xmin, 1)]

\* lines 124-129
MarkerStyle(ymin, xmin, ymax, xmax) ==
    [top |-> Pct(ymin, 10), left |-> Pct(xmin, 10),
     height |-> Pct(ymax - ymin, 10), width |-> Pct(xmax - xmin, 10)]

\* a marker that renders whatever the box is, reading absent components as 0
HasBox_Any(issue) == TRUE

\* issue.boundingBox is <<>> when the field is absent, else <<array>>
HasBox(issue) == issue.boundingBox # <<>> /\ Len(issue.boundingBox[1]) = 4

\* isIgnored is <<>> when the field is absent, else <<boolean>>
Ignored(issue) == issue.isIgnored = <<TRUE>>

Component(issue, k) ==
    IF issue.boundingBox # <<>> /\ k <= Len(issue.boundingBox[1])
    THEN issue.boundingBox[1][k]
    ELSE 0

\* lines 107-175: <<>> for null, else the element, with the number its badge shows
\* and the index its click hands to onClick; destructuring a box that is absent
\* (line 121) would throw
IssueMarker(issue, index) ==
    IF ~HasBox(issue)
    THEN <<>>
    ELSE IF issue.boundingBox = <<>>
    THEN <<[error |-> TRUE]>>
    ELSE <<[error |-> FALSE,
            style |-> MarkerStyle(Component(issue, 1), Component(issue, 2),
                                  Component(issue, 3), Component(issue, 4)),
            severity |-> issue.severity,
            badge |-> index + 1,
            emits |-> index]>>

Severities == {"High", "Medium", "Low"}

NewIssue(description, box) ==
    [description |-> description, severity |-> "Medium", boundingBox |-> box,
     isIgnored |-> <<>>]

\* coordinates on the 0-1000 scale: the ends, their neighbours and the middle
Coords == {0, 1, 500, 999, 1000}

\* every box of four such coordinates; no box, and arrays of 0, 3 and 5 components
MarkerBoxes ==
    { <<b>> : b \in [1..4 -> Coords] }
        \cup { <<>>, << <<>> >>, << <<0, 0, 1000>> >>, << <<0, 0, 500, 500, 1000>> >> }

InitMarkerAlone ==
    /\ InitStore /\ InitCall /\ InitErr
    /\ InitApp /\ InitHist /\ InitCompress /\ InitPure
    /\ markerIssue \in { <<[issue |-> NewIssue("a", box), index |-> index]>> :
                           box \in MarkerBoxes, index \in {0, 2} }
    /\ markerOut = <<>>

\* one render of the marker; markerOut lists what each render gave
RenderMarker ==
    /\ Len(markerOut) < MaxRenders
    /\ markerOut' =
          Append(markerOut, IssueMarker(markerIssue[1].issue, markerIssue[1].index))
    /\ UNCHANGED <<storeVars, callVars, errVars, appVars, histVars, compressVars, pureVars,
                   markerIssue>>

NextMarker == RenderMarker

SpecMarker == InitMarkerAlone /\ [][NextMarker]_vars

InRange(p) == AtLeast(p, 0) /\ AtMost(p, 100)

StyleInRange(style) ==
    InRange(style.top) /\ InRange(style.left) /\ InRange(style.height) /\ InRange(style.width)

MarkerBox == markerIssue[1].issue.boundingBox[1]

FourInScale(box) == Len(box) = 4 /\ \A k \in 1..4 : box[k] \in 0..1000

\* C15 as stated: for every box of 4 integers in [0,1000] the four percentages of
\* the marker lie in [0,100]
C15_EveryBoxInRange ==
    \A k \in 1..Len(markerOut) :
        (markerIssue[1].issue.boundingBox # <<>> /\ FourInScale(MarkerBox))
            => markerOut[k] # <<>> /\ StyleInRange(markerOut[k][1].style)

\* C15, amended: for every box of 4 integers in [0,1000] top and left lie in
\* [0,100]; height and width lie in [0,100] when ymin <= ymax and xmin <= xmax;
\* and every render of the same box gives the same four values
C15_OrderedBoxInRange ==
    \A k \in 1..Len(markerOut) :
        (markerIssue[1].issue.boundingBox # <<>> /\ FourInScale(MarkerBox))
            => /\ markerOut[k] # <<>>
               /\ InRange(markerOut[k][1].style.top)
               /\ InRange(markerOut[k][1].style.left)
               /\ (MarkerBox[1] <= MarkerBox[3] => InRange(markerOut[k][1].style.height))
               /\ (MarkerBox[2] <= MarkerBox[4] => InRange(markerOut[k][1].style.width))
               /\ markerOut[k] = markerOut[1]

\* a box with a size was rendered twice
C15_Witness ==
    /\ Len(markerOut) = 2
    /\ markerIssue[1].issue.boundingBox = << <<1, 0, 500, 1000>> >>
    /\ markerOut[2] # <<>>
    /\ markerOut[2][1].style.height = Pct(499, 10)

-----------------------------------------------------------------------------
(* URL history: services/historyService.ts *)

MAX_HISTORY_COUNT == 10

\* a history that drops nothing already stored
saveFigmaUrlToHistory_KeepDuplicates(history, url) ==
    IF url = <<>> \/ Trim(url) = <<>>
    THEN history
    ELSE LET updated == <<Trim(url)>> \o history
         IN  SubSeq(updated, 1,
                    IF Len(updated) < MAX_HISTORY_COUNT THEN Len(updated) ELSE MAX_HISTORY_COUNT)

\* lines 21-41: the list stored after the call, given the list read by
\* getFigmaUrlHistory
saveFigmaUrlToHistory(history, url) ==
    IF url = <<>> \/ Trim(url) = <<>>
    THEN history
    ELSE LET trimmedUrl == Trim(url)
             filtered == SelectSeq(history, LAMBDA item : item # trimmedUrl)
             updated == <<trimmedUrl>> \o filtered
         IN  SubSeq(updated, 1,
                    IF Len(updated) < MAX_HISTORY_COUNT THEN Len(updated) ELSE MAX_HISTORY_COUNT)

-----------------------------------------------------------------------------
(* The page: App.tsx with components/ImageAnnotator.tsx and components/ResultCard.tsx *)

\* markers numbered by their place among the issues that are shown
ImageAnnotator_Filtered(issues) ==
    [k \in 1..Len(issues) |->
        IF Ignored(issues[k])
        THEN <<>>
        ELSE IssueMarker(issues[k],
                         Cardinality({j \in 1..(k - 1) : ~Ignored(issues[j])}))]

\* ImageAnnotator.tsx lines 221-238: what issues.map gives for each issue, <<>> for
\* null; the index of an issue is its place in `issues`, from 0
ImageAnnotator(issues) ==
    [k \in 1..Len(issues) |->
        IF Ignored(issues[k]) THEN <<>> ELSE IssueMarker(issues[k], k - 1)]

\* ResultCard.tsx lines 97-190: a row shows idx + 1, hands idx to its handlers, and
\* offers the severity menu only for an issue that is not ignored
IssueRow(issue, idx) ==
    [badge |-> idx + 1, emits |-> idx, severity |-> issue.severity,
     severityMenu |-> ~Ignored(issue)]

\* ResultCard.tsx lines 249-264: the list of the issues shown
VisibleRows(issues) ==
    [k \in 1..Len(issues) |->
        IF Ignored(issues[k]) THEN <<>> ELSE <<IssueRow(issues[k], k - 1)>>]

\* ResultCard.tsx lines 292-307: the section of the ignored issues, when open
IgnoredRows(issues) ==
    [k \in 1..Len(issues) |->
        IF ~Ignored(issues[k]) THEN <<>> ELSE <<IssueRow(issues[k], k - 1)>>]

MsgUploadBoth == "upload the design and the implementation image"

MsgAnalysisFailed == "the analysis failed, check the network or the API key"

MsgRetry == "please retry"

\* App.tsx lines 330-407: the results section of the page for a given state
AppView(st, res, design, impl, msg) ==
    CASE st = "SUCCESS" /\ res # <<>> /\ impl # <<>> ->
            [panel |-> "RESULTS", message |-> <<>>, imageUrl |-> impl,
             designImageUrl |-> design,
             markers |-> ImageAnnotator(res[1].issues),
             rows |-> VisibleRows(res[1].issues),
             ignoredRows |-> IgnoredRows(res[1].issues)]
      [] st = "ERROR" ->
            [IdleView EXCEPT !.panel = "ERROR",
                             !.message = IF msg = <<>> THEN <<MsgRetry>> ELSE msg]
      [] OTHER -> [IdleView EXCEPT !.panel = st]

\* React renders again after every change of state
Rendered == view' = AppView(status', result', designImage', implImage', errorMsg')

\* a handler that leaves the result of the analysis before in place
handleAnalysis_KeepResult ==
    IF designImage = <<>> \/ implImage = <<>>
    THEN /\ errorMsg' = <<MsgUploadBoth>>
         /\ UNCHANGED <<status, result, selectedIssueIndex, run>>
    ELSE /\ status' = "ANALYZING"
         /\ errorMsg' = <<>>
         /\ UNCHANGED <<result, selectedIssueIndex>>
         /\ run' = [pc |-> IF Trim(figmaUrl) # <<>> THEN "extracting" ELSE "analyzing",
                    designImage |-> designImage, implImage |-> implImage,
                    figmaUrl |-> figmaUrl, extractedStyleInfo |-> <<>>,
                    extractions |-> IF Trim(figmaUrl) # <<>> THEN 1 ELSE 0]

\* lines 71-90: the handler up to its first await, extractFigmaStyles (line 90) when
\* the URL is not blank and else analyzeUiDifferences; the run keeps the values the
\* closure holds and counts the calls of extractFigmaStyles
handleAnalysis ==
    IF designImage = <<>> \/ implImage = <<>>
    THEN /\ errorMsg' = <<MsgUploadBoth>>
         /\ UNCHANGED <<status, result, selectedIssueIndex, run>>
    ELSE /\ status' = "ANALYZING"
         /\ errorMsg' = <<>>
         /\ result' = <<>>
         /\ selectedIssueIndex' = <<>>
         /\ run' = [pc |-> IF Trim(figmaUrl) # <<>> THEN "extracting" ELSE "analyzing",
                    designImage |-> designImage, implImage |-> implImage,
                    figmaUrl |-> figmaUrl, extractedStyleInfo |-> <<>>,
                    extractions |-> IF Trim(figmaUrl) # <<>> THEN 1 ELSE 0]

\* lines 129-139
handleSeverityChange(index, newSeverity) ==
    IF result = <<>>
    THEN UNCHANGED result
    ELSE result' =
            <<[result[1] EXCEPT !.issues =
                  [result[1].issues EXCEPT ![index + 1] =
                      [result[1].issues[index + 1] EXCEPT !.severity = newSeverity]]]>>

\* a toggle that never clears the selection
toggleIssueIgnore_KeepSelection(index) ==
    IF result = <<>>
    THEN UNCHANGED <<result, selectedIssueIndex>>
    ELSE /\ result' =
              <<[result[1] EXCEPT !.issues =
                    [result[1].issues EXCEPT ![index + 1] =
                        [result[1].issues[index + 1] EXCEPT
                            !.isIgnored = <<~Ignored(result[1].issues[index + 1])>>]]]>>
         /\ UNCHANGED selectedIssueIndex

\* lines 141-157
toggleIssueIgnore(index) ==
    IF result = <<>>
    THEN UNCHANGED <<result, selectedIssueIndex>>
    ELSE LET newIsIgnored == ~Ignored(result[1].issues[index + 1])
         IN  /\ result' =
                  <<[result[1] EXCEPT !.issues =
                        [result[1].issues EXCEPT ![index + 1] =
                            [result[1].issues[index + 1] EXCEPT
                                !.isIgnored = <<newIsIgnored>>]]]>>
             /\ IF selectedIssueIndex = <<index>> /\ newIsIgnored
                THEN selectedIssueIndex' = <<>>
                ELSE UNCHANGED selectedIssueIndex

\* lines 168-190, the confirm dialog accepted: what both handlers do after they
\* have set their image to null
ClearResultIfAny ==
    IF result # <<>>
    THEN result' = <<>> /\ status' = "IDLE" /\ selectedIssueIndex' = <<>>
    ELSE UNCHANGED <<result, status, selectedIssueIndex>>

DesignImages == {"design1"}

ImplImages == {"impl1", "impl2"}

\* what the URL field may hold: nothing, or a URL with white space around it
PageUrls == {<<>>, <<WS, "u", WS>>}

\* results analyzeUiDifferences resolves with: issues with a box, without one, with
\* a box of 3 components; no issue at all
AnalysisResults ==
    { [score |-> 85, summary |-> "close",
       issues |-> <<NewIssue("a", << <<100, 200, 300, 400>> >>), NewIssue("b", <<>>),
                    NewIssue("c", << <<0, 0, 1000, 1000>> >>)>>],
      [score |-> 40, summary |-> "far",
       issues |-> <<NewIssue("d", << <<0, 0, 1000>> >>)>>],
      [score |-> 100, summary |-> "same", issues |-> <<>>] }

\* error.message of a rejected analysis: <<>> for an empty one
RejectionMessages == {<<>>, <<"request failed">>}

Elsewhere ==
    UNCHANGED <<storeVars, callVars, errVars, saved, saves, markerVars, compressVars,
                pureVars>>

\* lines 294 and 302: a file was chosen in one of the two upload fields
SelectDesign ==
    \E img \in DesignImages :
        /\ designImage' = <<img>>
        /\ UNCHANGED <<implImage, figmaUrl, status, result, errorMsg, selectedIssueIndex,
                       run, urlHistory>>
        /\ Rendered /\ Elsewhere

SelectImpl ==
    \E img \in ImplImages :
        /\ implImage' = <<img>>
        /\ UNCHANGED <<designImage, figmaUrl, status, result, errorMsg,
                       selectedIssueIndex, run, urlHistory>>
        /\ Rendered /\ Elsewhere

\* lines 180-190
RemoveDesign ==
    /\ designImage # <<>>
    /\ designImage' = <<>>
    /\ ClearResultIfAny
    /\ UNCHANGED <<implImage, figmaUrl, errorMsg, run, urlHistory>>
    /\ Rendered /\ Elsewhere

\* lines 168-178
RemoveImpl ==
    /\ implImage # <<>>
    /\ implImage' = <<>>
    /\ ClearResultIfAny
    /\ UNCHANGED <<designImage, figmaUrl, errorMsg, run, urlHistory>>
    /\ Rendered /\ Elsewhere

\* line 283: the URL field was edited
EditUrl ==
    \E url \in PageUrls :
        /\ url # figmaUrl
        /\ figmaUrl' = url
        /\ UNCHANGED <<designImage, implImage, status, result, errorMsg,
                       selectedIssueIndex, run, urlHistory>>
        /\ Rendered /\ Elsewhere

\* lines 315-322: the button is disabled without both images, and busy, which is
\* taken to disable it too, while status is ANALYZING
ButtonEnabled == designImage # <<>> /\ implImage # <<>> /\ status # "ANALYZING"

StartAnalysis ==
    /\ ButtonEnabled
    /\ handleAnalysis
    /\ UNCHANGED <<designImage, implImage, figmaUrl, urlHistory>>
    /\ Rendered /\ Elsewhere

\* lines 87-103: extractFigmaStyles settled, with a style or with null
StylesSettled ==
    \E style \in {<<>>, <<[text |-> [fontSize |-> 16]]>>} :
        /\ run.pc = "extracting"
        /\ run' = [run EXCEPT !.pc = "analyzing", !.extractedStyleInfo = style]
        /\ UNCHANGED <<designImage, implImage, figmaUrl, status, result, errorMsg,
                       selectedIssueIndex, urlHistory>>
        /\ Rendered /\ Elsewhere

\* geminiService.ts lines 425-434, inside the analyzeUiDifferences of line 106: the
\* images are compressed, and the styles extracted if none were passed
AnalyzerCompressed ==
    /\ run.pc = "analyzing"
    /\ run' = [run EXCEPT
                 !.pc = "requesting",
                 !.extractions = IF ShouldExtract(run.extractedStyleInfo, run.figmaUrl)
                                 THEN @ + 1 ELSE @]
    /\ UNCHANGED <<designImage, implImage, figmaUrl, status, result, errorMsg,
                   selectedIssueIndex, urlHistory>>
    /\ Rendered /\ Elsewhere

\* lines 106-120: analyzeUiDifferences resolved
AnalysisResolved ==
    \E data \in AnalysisResults :
        /\ run.pc = "requesting"
        /\ result' = <<data>>
        /\ status' = "SUCCESS"
        /\ urlHistory' = saveFigmaUrlToHistory(urlHistory, run.figmaUrl)
        /\ run' = NoRun
        /\ UNCHANGED <<designImage, implImage, figmaUrl, errorMsg, selectedIssueIndex>>
        /\ Rendered /\ Elsewhere

\* lines 121-126: analyzeUiDifferences rejected
AnalysisRejected ==
    \E message \in RejectionMessages :
        /\ run.pc \in {"analyzing", "requesting"}
        /\ status' = "ERROR"
        /\ errorMsg' = IF message = <<>> THEN <<MsgAnalysisFailed>> ELSE message
        /\ run' = NoRun
        /\ UNCHANGED <<designImage, implImage, figmaUrl, result, selectedIssueIndex,
                       urlHistory>>
        /\ Rendered /\ Elsewhere

\* line 404: the button of the error panel
Retry ==
    /\ view.panel = "ERROR"
    /\ status' = "IDLE"
    /\ UNCHANGED <<designImage, implImage, figmaUrl, result, errorMsg,
                   selectedIssueIndex, run, urlHistory>>
    /\ Rendered /\ Elsewhere

\* a severity was picked in the menu of a row
SeverityChanged ==
    \E k \in 1..Len(view.rows), newSeverity \in Severities :
        /\ view.rows[k] # <<>>
        /\ view.rows[k][1].severityMenu
        /\ handleSeverityChange(view.rows[k][1].emits, newSeverity)
        /\ UNCHANGED <<designImage, implImage, figmaUrl, status, errorMsg,
                       selectedIssueIndex, run, urlHistory>>
        /\ Rendered /\ Elsewhere

\* the ignore button of a row, in the list or in the section of the ignored issues
IgnoreToggled ==
    \E k \in 1..Len(view.rows) :
        /\ view.rows[k] # <<>> \/ view.ignoredRows[k] # <<>>
        /\ LET row == IF view.rows[k] # <<>> THEN view.rows[k][1] ELSE view.ignoredRows[k][1]
           IN  toggleIssueIgnore(row.emits)
        /\ UNCHANGED <<designImage, implImage, figmaUrl, status, errorMsg, run,
                       urlHistory>>
        /\ Rendered /\ Elsewhere

\* a marker of the overlay was clicked (line 370)
MarkerClicked ==
    \E k \in 1..Len(view.markers) :
        /\ view.markers[k] # <<>>
        /\ selectedIssueIndex' = <<view.markers[k][1].emits>>
        /\ UNCHANGED <<designImage, implImage, figmaUrl, status, result, errorMsg, run,
                       urlHistory>>
        /\ Rendered /\ Elsewhere

\* a row of the list or of the ignored section was clicked (line 378)
RowClicked ==
    \E k \in 1..Len(view.rows) :
        /\ view.rows[k] # <<>> \/ view.ignoredRows[k] # <<>>
        /\ LET row == IF view.rows[k] # <<>> THEN view.rows[k][1] ELSE view.ignoredRows[k][1]
           IN  selectedIssueIndex' = <<row.emits>>
        /\ UNCHANGED <<designImage, implImage, figmaUrl, status, result, errorMsg, run,
                       urlHistory>>
        /\ Rendered /\ Elsewhere

NextApp ==
    \/ SelectDesign \/ SelectImpl \/ RemoveDesign \/ RemoveImpl \/ EditUrl
    \/ StartAnalysis \/ StylesSettled \/ AnalyzerCompressed
    \/ AnalysisResolved \/ AnalysisRejected \/ Retry
    \/ SeverityChanged \/ IgnoreToggled \/ MarkerClicked \/ RowClicked

InitAppAlone == Init /\ envApiKey = ""

SpecApp == InitAppAlone /\ [][NextApp]_vars

\* the page shown is the page of the state
ViewIsCurrent == view = AppView(status, result, designImage, implImage, errorMsg)

-----------------------------------------------------------------------------
(* Claims about the page *)

Issues == result[1].issues

\* C16: the overlay holds an element for an issue exactly when the issue is not
\* ignored and has a bounding box of four components; for an issue without a box,
\* with a box of another length or ignored it holds nothing, and no render throws
C16_MarkerIffShownAndBoxed ==
    view.panel = "RESULTS" =>
        /\ Len(view.markers) = Len(Issues)
        /\ \A k \in 1..Len(Issues) :
              /\ view.markers[k] # <<>> <=>
                    /\ Issues[k].isIgnored # <<TRUE>>
                    /\ Issues[k].boundingBox # <<>>
                    /\ Len(Issues[k].boundingBox[1]) = 4
              /\ view.markers[k] # <<>> => ~view.markers[k][1].error

\* of three issues the first has its marker, the second has no box and the third,
\* which has one, is ignored
C16_Witness ==
    /\ view.panel = "RESULTS"
    /\ Len(Issues) = 3
    /\ view.markers[1] # <<>>
    /\ Issues[2].boundingBox = <<>> /\ view.markers[2] = <<>>
    /\ Issues[3].boundingBox # <<>> /\ Issues[3].isIgnored = <<TRUE>>
    /\ view.markers[3] = <<>>

\* every element of the page that stands for the issue at place k shows k and
\* hands k - 1, its index from 0, to its handlers
IndexIsPlace ==
    \A k \in 1..Len(view.markers) :
        /\ view.markers[k] # <<>> =>
              view.markers[k][1].badge = k /\ view.markers[k][1].emits = k - 1
        /\ view.rows[k] # <<>> =>
              view.rows[k][1].badge = k /\ view.rows[k][1].emits = k - 1
        /\ view.ignoredRows[k] # <<>> =>
              view.ignoredRows[k][1].badge = k /\ view.ignoredRows[k][1].emits = k - 1

Changed == {k \in 1..Len(Issues) : Issues'[k] # Issues[k]}

\* a step from one result to another keeps the number of issues, changes at most
\* one of them, the one whose row was on the page at that place, and of that one
\* only the severity or only the isIgnored field
StableStep ==
    /\ Len(Issues') = Len(Issues)
    /\ Cardinality(Changed) <= 1
    /\ \A k \in Changed :
          /\ view.rows[k] # <<>> \/ view.ignoredRows[k] # <<>>
          /\ \/ Issues'[k] = [Issues[k] EXCEPT !.severity = Issues'[k].severity]
             \/ Issues'[k] = [Issues[k] EXCEPT !.isIgnored = Issues'[k].isIgnored]

RetryStep ==
    /\ status' = "IDLE"
    /\ UNCHANGED <<designImage, implImage, figmaUrl, result, errorMsg,
                   selectedIssueIndex, run>>

\* a new analysis: status becomes ANALYZING, a run starts and the result stays null
NewAnalysisStep == status' = "ANALYZING" /\ run'.pc # "none" /\ result' = <<>>

-----------------------------------------------------------------------------
(* saveFigmaUrlToHistory on its own *)

\* calls in one behaviour
MaxSaves == 3

HistoryUrl(d) == <<"u", d>>

\* ten URLs, the one saved last first
FullHistory ==
    <<HistoryUrl("0"), HistoryUrl("1"), HistoryUrl("2"), HistoryUrl("3"), HistoryUrl("4"),
      HistoryUrl("5"), HistoryUrl("6"), HistoryUrl("7"), HistoryUrl("8"), HistoryUrl("9")>>

\* the argument: empty, white space, the first, a middle and the last URL of the
\* history, with and without white space around, and two URLs not in it
SavedUrls ==
    { <<>>, <<WS>>, HistoryUrl("0"), <<WS>> \o HistoryUrl("4") \o <<WS>>, HistoryUrl("9"),
      <<"n", "1">>, <<WS, "n", "2">> }

Reverse(s) == [k \in 1..Len(s) |-> s[Len(s) + 1 - k]]

\* the history after 0, 1, 9 and 10 saves of distinct URLs
InitHistoryAlone ==
    /\ InitStore /\ envApiKey = "" /\ InitCall /\ InitErr
    /\ InitApp /\ InitMarker /\ InitCompress /\ InitPure
    /\ \E n \in {0, 1, 9, 10} :
          /\ urlHistory = SubSeq(FullHistory, 1, n)
          /\ saved = Reverse(SubSeq(FullHistory, 1, n))
    /\ saves = 0

SaveUrl ==
    \E url \in SavedUrls :
        /\ saves < MaxSaves
        /\ urlHistory' = saveFigmaUrlToHistory(urlHistory, url)
        /\ saved' = Append(saved, url)
        /\ saves' = saves + 1
        /\ UNCHANGED <<storeVars, callVars, errVars, appVars, markerVars, compressVars,
                       pureVars>>

NextHistory == SaveUrl

SpecHistory == InitHistoryAlone /\ [][NextHistory]_vars

\* the URLs of a list of calls, trimmed, blank ones left out, each once, the one of
\* the latest call first
RECURSIVE RecentFirst(_)
RecentFirst(calls) ==
    IF calls = <<>>
    THEN <<>>
    ELSE LET url == Trim(calls[Len(calls)])
             before == RecentFirst(SubSeq(calls, 1, Len(calls) - 1))
         IN  IF url = <<>>
             THEN before
             ELSE <<url>> \o SelectSeq(before, LAMBDA item : item # url)

-----------------------------------------------------------------------------
(* compressImage: services/geminiService.ts lines 256-295 *)

MAX_WIDTH == 1024

\* Math.round(n / d) for n >= 0 and d > 0: the nearest integer, a half going up
Round(n, d) == (2 * n + d) \div (2 * d)

\* lines 265-275: the size of the canvas for an image of the given size
CanvasSize(width, height) ==
    IF width > MAX_WIDTH
    THEN [width |-> MAX_WIDTH, height |-> Round(height * MAX_WIDTH, width)]
    ELSE [width |-> width, height |-> height]

ImageWidths == {1, 512, 1023, 1024, 1025, 2048, 3000}

ImageHeights == {1, 3, 512, 1024, 1025, 2048, 5000}

InitCompressAlone ==
    /\ InitStore /\ envApiKey = "" /\ InitCall /\ InitErr
    /\ InitApp /\ InitHist /\ InitMarker /\ InitPure
    /\ imgIn \in { <<[width |-> w, height |-> h]>> : w \in ImageWidths, h \in ImageHeights }
    /\ imgOut = <<>>

ElsewhereThanCompress ==
    UNCHANGED <<storeVars, callVars, errVars, appVars, histVars, markerVars, pureVars,
                imgIn>>

\* lines 263-287: the image loaded and was drawn on the canvas, and the call
\* resolved with the JPEG of the canvas
ImageDrawn ==
    /\ imgOut = <<>>
    /\ imgOut' = <<[how |-> "drawn", size |-> CanvasSize(imgIn[1].width, imgIn[1].height)]>>
    /\ ElsewhereThanCompress

\* lines 277-280 and 290-293: no 2d context, or the image did not load, and the
\* call resolved with the data it was given
ImageKept ==
    /\ imgOut = <<>>
    /\ imgOut' = <<[how |-> "kept", size |-> imgIn[1]]>>
    /\ ElsewhereThanCompress

NextCompress == ImageDrawn \/ ImageKept

SpecCompress == InitCompressAlone /\ [][NextCompress]_vars

\* C20: the image compressImage draws has width and height of at most 1024, the
\* proportions of the image it was given up to the rounding of the height, and the
\* size of that image when its width is at most 1024
C20_BothSidesBounded ==
    (imgOut # <<>> /\ imgOut[1].how = "drawn") =>
        LET w == imgIn[1].width
            h == imgIn[1].height
            out == imgOut[1].size
            skew == out.height * w - h * out.width
        IN  /\ out.width <= 1024 /\ out.height <= 1024
            /\ 2 * skew <= w /\ -2 * skew <= w
            /\ w <= 1024 => (out.width = w /\ out.height = h)

-----------------------------------------------------------------------------
(* formatStyleInfo on its own *)

\* an object with no field
NoFields == <<>>

\* a field that may be absent: <<>>, or <<name, value>>
Field(option) == IF option = <<>> THEN NoFields ELSE option[1] :> option[2]

ColorInputs ==
    { <<>>, <<"colors", NoFields>>, <<"colors", [background |-> ""]>>,
      <<"colors", [background |-> "#FFFFFF"]>>,
      <<"colors", [background |-> "#FFFFFF", text |-> "#000000"]>> }

SpacingInputs ==
    { <<>>, <<"spacing", NoFields>>, <<"spacing", [padding |-> NoFields]>>,
      <<"spacing", [padding |-> [top |-> 8], gap |-> 0]>>,
      <<"spacing", [margin |-> [top |-> 0, right |-> 4, bottom |-> 0, left |-> 4]]>>,
      <<"spacing", [gap |-> 0]>>, <<"spacing", [gap |-> 12]>> }

DimensionInputs ==
    { <<>>, <<"dimensions", NoFields>>, <<"dimensions", [width |-> 0]>>,
      <<"dimensions", [width |-> 320, borderRadius |-> 8]>> }

TypographyInputs ==
    { <<>>, <<"typography", [fontFamily |-> ""]>>, <<"typography", [letterSpacing |-> 1]>>,
      <<"typography", [fontFamily |-> "Inter", fontSize |-> 16]>> }

TextInputs ==
    { <<>>, <<"text", [chinese |-> <<>>]>>, <<"text", [chinese |-> <<"nihao">>]>>,
      <<"text", [english |-> <<"hello", "world">>]>> }

FormatInputs ==
    {<<>>} \cup
    { <<Field(c) @@ Field(sp) @@ Field(d) @@ Field(ty) @@ Field(tx)>> :
        c \in ColorInputs, sp \in SpacingInputs, d \in DimensionInputs,
        ty \in TypographyInputs, tx \in TextInputs }

InitFormatAlone ==
    /\ InitStore /\ envApiKey = "" /\ InitCall /\ InitErr
    /\ InitApp /\ InitHist /\ InitMarker /\ InitCompress /\ InitCrop
    /\ InitSchema /\ InitHover
    /\ styleIn \in FormatInputs
    /\ styleText = <<>>

Format ==
    /\ styleText = <<>>
    /\ styleText' = <<formatStyleInfo(styleIn)>>
    /\ UNCHANGED <<storeVars, callVars, errVars, appVars, histVars, markerVars,
                   compressVars, cropVars, schemaVars, hoverVars, styleIn>>

NextFormat == Format

SpecFormat == InitFormatAlone /\ [][NextFormat]_vars

\* the name an item of a line stands for: the first component of <<key, value>> and
\* of <<"padding", top, right, bottom, left>>
ItemKey(item) == item[1]

-----------------------------------------------------------------------------
(* CroppedImage: components/ImageAnnotator.tsx lines 24-90 *)

\* numbers as fractions; a division by zero shows as a denominator of 0
Rat(num, den) == [num |-> num, den |-> den]

Times(a, b) == Rat(a.num * b.num, a.den * b.den)

Over(a, b) == Rat(a.num * b.den, a.den * b.num)

\* a handler that goes on whatever the size of the crop
CropIsEmpty_Never(cropW, cropH) == FALSE

\* line 46: cropW === 0 || cropH === 0
CropIsEmpty(cropW, cropH) == cropW.num = 0 \/ cropH.num = 0

\* lines 33-63: the styles handleLoad sets, <<>> when it returns before setStyles
handleLoad(box, naturalWidth, naturalHeight) ==
    LET ymin == box[1]
        xmin == box[2]
        ymax == box[3]
        xmax == box[4]
        scaleX == Over(Rat(naturalWidth, 1), Rat(1000, 1))
        scaleY == Over(Rat(naturalHeight, 1), Rat(1000, 1))
        cropX == Times(Rat(xmin, 1), scaleX)
        cropY == Times(Rat(ymin, 1), scaleY)
        cropW == Times(Rat(xmax - xmin, 1), scaleX)
        cropH == Times(Rat(ymax - ymin, 1), scaleY)
    IN  IF CropIsEmpty(cropW, cropH)
        THEN <<>>
        ELSE <<[width |-> Times(Over(Rat(naturalWidth, 1), cropW), Rat(100, 1)),
                height |-> Times(Over(Rat(naturalHeight, 1), cropH), Rat(100, 1)),
                translateX |-> Times(Over(cropX, Rat(naturalWidth, 1)), Rat(100, 1)),
                translateY |-> Times(Over(cropY, Rat(naturalHeight, 1)), Rat(100, 1))]>>

\* lines 66-67
AspectRatio(box) ==
    LET height == box[3] - box[1]
    IN  IF height > 0 THEN Over(Rat(box[4] - box[2], 1), Rat(height, 1)) ELSE Rat(1, 1)

\* lines 29-88: <<>> for null, else the container, its image not yet loaded
CroppedImage(box) ==
    IF Len(box) # 4
    THEN <<>>
    ELSE <<[aspectRatio |-> AspectRatio(box), loaded |-> FALSE, styles |-> <<>>]>>

CropCoords == {0, 500, 1000}

CropBoxes == [1..4 -> CropCoords] \cup {<<0, 0, 1000>>}

NaturalSizes == {0, 800}

InitCropAlone ==
    /\ InitStore /\ envApiKey = "" /\ InitCall /\ InitErr
    /\ InitApp /\ InitHist /\ InitMarker /\ InitCompress /\ InitFormat
    /\ InitSchema /\ InitHover
    /\ cropIn \in { <<[box |-> box, naturalWidth |-> w, naturalHeight |-> h]>> :
                      box \in CropBoxes, w \in NaturalSizes, h \in NaturalSizes }
    /\ cropOut = <<>>

ElsewhereThanCrop ==
    UNCHANGED <<storeVars, callVars, errVars, appVars, histVars, markerVars,
                compressVars, formatVars, schemaVars, hoverVars, cropIn>>

\* the first render: cropOut is <<element>>, the element being <<>> for null
RenderCrop ==
    /\ cropOut = <<>>
    /\ cropOut' = <<CroppedImage(cropIn[1].box)>>
    /\ ElsewhereThanCrop

\* the image loaded (onLoad, line 80)
ImageLoaded ==
    /\ cropOut # <<>> /\ cropOut[1] # <<>> /\ ~cropOut[1][1].loaded
    /\ cropOut' =
          << <<[cropOut[1][1] EXCEPT
                  !.loaded = TRUE,
                  !.styles = handleLoad(cropIn[1].box, cropIn[1].naturalWidth,
                                        cropIn[1].naturalHeight)]>> >>
    /\ ElsewhereThanCrop

NextCrop == RenderCrop \/ ImageLoaded

SpecCrop == InitCropAlone /\ [][NextCrop]_vars

Defined(r) == r.den # 0

CropBox == cropIn[1].box

\* C22: no number CroppedImage computes is a quotient by zero; for a box of width or
\* height 0 and for an image of natural width or height 0 the load handler sets no
\* styles; the aspect ratio is 1 when the height of the box is not positive
C22_NoDivisionByZero ==
    (cropOut # <<>> /\ cropOut[1] # <<>>) =>
        LET shown == cropOut[1][1]
            degenerate ==
                \/ CropBox[4] - CropBox[2] = 0 \/ CropBox[3] - CropBox[1] = 0
                \/ cropIn[1].naturalWidth = 0 \/ cropIn[1].naturalHeight = 0
        IN  /\ Defined(shown.aspectRatio)
            /\ CropBox[3] - CropBox[1] <= 0 => shown.aspectRatio = Rat(1, 1)
            /\ (shown.loaded /\ degenerate) => shown.styles = <<>>
            /\ shown.styles # <<>> =>
                  /\ Defined(shown.styles[1].width) /\ Defined(shown.styles[1].height)
                  /\ Defined(shown.styles[1].translateX)
                  /\ Defined(shown.styles[1].translateY)

\* an image without width loaded for a box with a size: no styles were set
C22_Witness ==
    /\ cropIn = <<[box |-> <<0, 0, 500, 1000>>, naturalWidth |-> 0, naturalHeight |-> 800]>>
    /\ cropOut # <<>> /\ cropOut[1] # <<>>
    /\ cropOut[1][1].loaded
    /\ cropOut[1][1].styles = <<>>
    /\ cropOut[1][1].aspectRatio = Rat(1000, 500)

-----------------------------------------------------------------------------
(* One attempt of the analysis loop: services/geminiService.ts, supportsSchema
   (lines 522-532) and the request runAnalysis builds (lines 467-497) *)

\* lines 524-530
schemaSupportedModels ==
    << <<"g", "e", "m", "i", "n", "i", "-", "3", "-", "p", "r", "o", "-", "p", "r", "e", "v", "i", "e", "w">>,
       <<"g", "e", "m", "i", "n", "i", "-", "3", "-", "f", "l", "a", "s", "h", "-", "p", "r", "e", "v", "i", "e", "w">>,
       <<"g", "e", "m", "i", "n", "i", "-", "2", ".", "0", "-", "f", "l", "a", "s", "h", "-", "e", "x", "p">>,
       <<"g", "e", "m", "i", "n", "i", "-", "1", ".", "5", "-", "p", "r", "o">>,
       <<"g", "e", "m", "i", "n", "i", "-", "1", ".", "5", "-", "f", "l", "a", "s", "h">> >>

\* a test for the whole name
supportsSchema_Exact(modelName) ==
    \E k \in 1..Len(schemaSupportedModels) : modelName = schemaSupportedModels[k]

\* line 531: schemaSupportedModels.some(m => modelName.includes(m))
supportsSchema(modelName) ==
    \E k \in 1..Len(schemaSupportedModels) : Includes(modelName, schemaSupportedModels[k])

BASE_PROMPT == "[basePrompt]"

\* the sentence line 472 appends
RAW_JSON_INSTRUCTION == "[output the JSON result directly, without a Markdown code block]"

\* lines 474-478
BaseConfig == [systemInstruction |-> "SYSTEM_INSTRUCTION", temperature |-> "0.4"]

\* lines 470-497: the argument of ai.models.generateContent
GenerateContentRequest(modelName, useSchema) ==
    [model |-> modelName,
     text |-> IF useSchema THEN <<BASE_PROMPT>> ELSE <<BASE_PROMPT, RAW_JSON_INSTRUCTION>>,
     config |-> IF useSchema
                THEN BaseConfig @@ ("responseMimeType" :> "application/json")
                                @@ ("responseSchema" :> "RESPONSE_SCHEMA")
                ELSE BaseConfig]

\* names that are not in the list: a known name cut short, another family, another
\* case, the empty name
OtherNames ==
    { <<"g", "e", "m", "i", "n", "i", "-", "3", "-", "p", "r", "o">>,
      <<"g", "e", "m", "i", "n", "i", "-", "2", ".", "0", "-", "f", "l", "a", "s", "h">>,
      <<"g", "e", "m", "i", "n", "i", "-", "2", ".", "5", "-", "f", "l", "a", "s", "h", "-", "i", "m", "a", "g", "e">>,
      <<"G", "e", "m", "i", "n", "i", "-", "1", ".", "5", "-", "P", "r", "o">>,
      <<"g", "p", "t", "-", "4", "o">>,
      <<>> }

NamePrefixes == { <<>>, <<"m", "o", "d", "e", "l", "s", "/">>, <<"x">> }

NameSuffixes == { <<>>, <<"-", "0", "0", "2">>, <<"-", "l", "a", "t", "e", "s", "t">> }

SchemaNames ==
    { prefix \o name \o suffix :
        prefix \in NamePrefixes,
        name \in {schemaSupportedModels[k] : k \in 1..Len(schemaSupportedModels)}
                    \cup OtherNames,
        suffix \in NameSuffixes }

InitSchemaAlone ==
    /\ InitStore /\ envApiKey = "" /\ InitCall /\ InitErr
    /\ InitApp /\ InitHist /\ InitMarker /\ InitCompress /\ InitFormat /\ InitCrop
    /\ InitHover
    /\ modelIn \in SchemaNames
    /\ requestOut = <<>>

\* lines 540-542: one iteration of the loop up to its request
Attempt ==
    /\ requestOut = <<>>
    /\ requestOut' = <<GenerateContentRequest(modelIn, supportsSchema(modelIn))>>
    /\ UNCHANGED <<storeVars, callVars, errVars, appVars, histVars, markerVars,
                   compressVars, formatVars, cropVars, hoverVars, modelIn>>

NextSchema == Attempt

SpecSchema == InitSchemaAlone /\ [][NextSchema]_vars

\* some part of the name, from place i to place j, is one of the known fragments
HasKnownFragment(name) ==
    \E i \in 1..Len(name), j \in 1..Len(name) :
        \E k \in 1..Len(schemaSupportedModels) : SubSeq(name, i, j) = schemaSupportedModels[k]

SchemaMode(request) ==
    /\ "responseMimeType" \in DOMAIN request.config
    /\ request.config["responseMimeType"] = "application/json"
    /\ "responseSchema" \in DOMAIN request.config
    /\ request.text = <<BASE_PROMPT>>

PromptMode(request) ==
    /\ "responseMimeType" \notin DOMAIN request.config
    /\ "responseSchema" \notin DOMAIN request.config
    /\ request.text = <<BASE_PROMPT, RAW_JSON_INSTRUCTION>>

\* C23: the request for a model is in schema mode (JSON mime type, response schema,
\* the prompt as it is) when the name contains a known fragment, and else carries no
\* schema and has the raw-JSON sentence after the prompt
C23_SchemaIffKnownFragment ==
    requestOut # <<>> =>
        /\ requestOut[1].model = modelIn
        /\ HasKnownFragment(modelIn) => SchemaMode(requestOut[1])
        /\ ~HasKnownFragment(modelIn) => PromptMode(requestOut[1])

\* a known name inside a longer one was asked in schema mode
C23_Witness ==
    /\ modelIn = <<"m", "o", "d", "e", "l", "s", "/">> \o schemaSupportedModels[4] \o <<"-", "0", "0", "2">>
    /\ requestOut # <<>>
    /\ SchemaMode(requestOut[1])

\* a name that is a known one cut short was asked with the raw-JSON sentence
C23_WitnessOther ==
    /\ modelIn = <<"g", "e", "m", "i", "n", "i", "-", "3", "-", "p", "r", "o">>
    /\ requestOut # <<>>
    /\ PromptMode(requestOut[1])

-----------------------------------------------------------------------------
(* The hover of ImageAnnotator: components/ImageAnnotator.tsx lines 181-202.  Time
   goes in steps of 10 ms; a timer may fire at its time or later, as the browser
   gets to it. *)

MaxHoverEvents == 3

MaxHoverTime == 60

\* the delay given to window.setTimeout (lines 193 and 200)
HOVER_DELAY == 30

\* handlers that leave the pending timer alone
Cancelled_None(timers, ref) == timers

\* lines 189 and 197: if (hoverTimeoutRef.current) clearTimeout(hoverTimeoutRef.current);
\* clearing a timer that has fired does nothing
Cancelled(timers, ref) ==
    IF ref # <<>> THEN {t \in timers : t.id # ref[1]} ELSE timers

\* lines 188-202: handleMouseEnter(index) with value <<index>>, handleMouseLeave with
\* value <<>>; the id of the new timer is a positive number not used before
HoverEvent(kind, value) ==
    LET id == Len(hoverEvents) + 1
    IN  /\ Len(hoverEvents) < MaxHoverEvents
        /\ hoverTimers' = Cancelled(hoverTimers, hoverTimeoutRef)
                             \cup {[id |-> id, value |-> value, due |-> hoverNow + HOVER_DELAY]}
        /\ hoverTimeoutRef' = <<id>>
        /\ hoverEvents' = Append(hoverEvents, [kind |-> kind, value |-> value, at |-> hoverNow])
        /\ UNCHANGED <<hoveredIndex, hoverNow, hoverSets>>

ElsewhereThanHover ==
    UNCHANGED <<storeVars, callVars, errVars, appVars, histVars, markerVars,
                compressVars, formatVars, cropVars, schemaVars>>

HoverIndices == {0, 1}

MouseEnter == \E index \in HoverIndices : HoverEvent("enter", <<index>>) /\ ElsewhereThanHover

MouseLeave == HoverEvent("leave", <<>>) /\ ElsewhereThanHover

\* lines 191-193 and 198-200: the callback of a timer that is due
TimerFired ==
    /\ \E t \in hoverTimers :
          /\ hoverNow >= t.due
          /\ hoveredIndex' = t.value
          /\ hoverTimers' = hoverTimers \ {t}
          /\ hoverSets' = Append(hoverSets, [value |-> t.value, by |-> t.id,
                                             latest |-> Len(hoverEvents)])
    /\ UNCHANGED <<hoverTimeoutRef, hoverNow, hoverEvents>>
    /\ ElsewhereThanHover

TimePassed ==
    /\ hoverNow < MaxHoverTime
    /\ hoverNow' = hoverNow + 10
    /\ UNCHANGED <<hoveredIndex, hoverTimeoutRef, hoverTimers, hoverEvents, hoverSets>>
    /\ ElsewhereThanHover

InitHoverAlone == Init /\ envApiKey = ""

NextHover == MouseEnter \/ MouseLeave \/ TimerFired \/ TimePassed

SpecHover == InitHoverAlone /\ [][NextHover]_vars

\* enter(i), leave, enter(j), each less than the delay after the first
QuickPass ==
    /\ Len(hoverEvents) = 3
    /\ hoverEvents[1].kind = "enter" /\ hoverEvents[2].kind = "leave"
    /\ hoverEvents[3].kind = "enter"
    /\ hoverEvents[3].at - hoverEvents[1].at < HOVER_DELAY

\* C24: at most one hover timer is pending, and it is the one of the most recent
\* event; every value hoveredIndex is set to is the one the most recent event
\* scheduled; after enter(i), leave, enter(j) within the delay hoveredIndex was set
\* to nothing but j, and is j once no timer is pending
C24_OnlyLatestHover ==
    /\ Cardinality(hoverTimers) <= 1
    /\ \A t \in hoverTimers : t.id = Len(hoverEvents) /\ hoverTimeoutRef = <<t.id>>
    /\ \A k \in 1..Len(hoverSets) :
          /\ hoverSets[k].by = hoverSets[k].latest
          /\ hoverSets[k].value = hoverEvents[hoverSets[k].by].value
    /\ QuickPass =>
          /\ \A k \in 1..Len(hoverSets) : hoverSets[k].value = hoverEvents[3].value
          /\ hoverTimers = {} => hoveredIndex = hoverEvents[3].value

\* enter(0), leave, enter(1) within the delay, and the one timer left has fired
C24_Witness ==
    /\ QuickPass
    /\ hoverEvents[1].value = <<0>> /\ hoverEvents[3].value = <<1>>
    /\ hoverEvents[3].at > hoverEvents[1].at
    /\ hoverTimers = {}
    /\ hoverSets = <<[value |-> <<1>>, by |-> 3, latest |-> 3]>>
    /\ hoveredIndex = <<1>>

-----------------------------------------------------------------------------
(* More claims about the page *)

\* C25: a run of handleAnalysis calls the style extractor at most once
C25_ExtractsAtMostOnce == run.extractions <= 1

\* the extraction of the App gave no style and the analyzer has extracted again
C25_ExtractedTwice ==
    /\ run.pc = "requesting"
    /\ Trim(run.figmaUrl) # <<>>
    /\ run.extractedStyleInfo = <<>>
    /\ run.extractions = 2

\* C25, where it holds: a run whose first extraction gave a style extracts once
C25_OnceWhenStyleFound ==
    (run.pc = "requesting" /\ run.extractedStyleInfo # <<>>) => run.extractions = 1

-----------------------------------------------------------------------------
(* More claims about the store *)

\* the list under STORAGE_KEY, empty when nothing is stored
Stored == IF storage = <<>> THEN <<>> ELSE storage[1]

\* this step is a deleteApiConfig that took a stored profile away
DeleteStep ==
    /\ lastOp'.op = "delete" /\ ~lastOp'.threw
    /\ storage' # <<>>
    /\ HasId(Stored, lastOp'.id) # {}
    /\ HasId(storage'[1], lastOp'.id) = {}

\* C26: deleting the stored profile marked default leaves the first of the remaining
\* stored profiles marked default and the flags of the others as they were; deleting
\* a profile not marked default leaves every flag as it was; in both cases the
\* remaining profiles stay in their order
C26_DeletePromotesFirst ==
    [][ DeleteStep =>
          LET id == lastOp'.id
              before == Stored
              after == storage'[1]
              deleted == before[CHOOSE k \in HasId(before, id) : TRUE]
              rest == {k \in 1..Len(before) : before[k].id # id}
              \* the place in `after` of the profile at place k of `before`
              Place(k) == Cardinality({j \in rest : j <= k})
          IN  /\ Len(after) = Cardinality(rest)
              /\ \A k \in rest :
                    /\ after[Place(k)].id = before[k].id
                    /\ after[Place(k)].isDefault =
                          IF deleted.isDefault /\ Place(k) = 1
                          THEN TRUE
                          ELSE before[k].isDefault ]_vars

\* config_2, marked default by setDefaultConfig, was deleted with config_1 and
\* config_3 in the store: config_1, the first, is marked, config_3 is not
C26_Witness ==
    /\ lastOp = OpRecord("delete", "config_2", FALSE)
    /\ Len(Stored) = 2
    /\ Stored[1].id = "config_1" /\ Stored[1].isDefault
    /\ Stored[2].id = "config_3" /\ ~Stored[2].isDefault

\* the last operation was setDefaultConfig(id) for a stored profile
DefaultJustSet == lastOp.op = "setDefault" /\ HasId(Stored, lastOp.id) # {}

\* C27: after setDefaultConfig(id) for a stored profile, and before any other
\* operation, getActiveConfig without an id, and with an id no profile has, resolves
\* to that profile
C27_DefaultResolves ==
    DefaultJustSet =>
        /\ getActiveConfig("") # <<>>
        /\ getActiveConfig("")[1].id = lastOp.id
        /\ getActiveConfig("no-such-id") # <<>>
        /\ getActiveConfig("no-such-id")[1].id = lastOp.id

\* what the code does in that state: the profile is marked in the store, and the
\* resolution without an id gives the environment profile
C27_ResolvesToEnvironment ==
    DefaultJustSet =>
        /\ \A k \in 1..Len(Stored) : Stored[k].isDefault <=> Stored[k].id = lastOp.id
        /\ getActiveConfig("") = <<getDefaultConfig>>
        /\ getActiveConfig("no-such-id") = <<getDefaultConfig>>
        /\ getActiveConfig(lastOp.id)[1].id = lastOp.id

-----------------------------------------------------------------------------
(* The result and the images it was computed for *)

\* status SUCCESS with a result
ResultShown == status = "SUCCESS" /\ result # <<>>

\* C28: a result comes to be shown only with the two images its analysis was run on
\* in place, and while it is shown the images do not change; so status SUCCESS with a
\* result never holds over another image or with an image missing
C28_ResultMatchesImages ==
    [][ /\ (~ResultShown /\ ResultShown') =>
              /\ designImage' = run.designImage /\ designImage' # <<>>
              /\ implImage' = run.implImage /\ implImage' # <<>>
        /\ (ResultShown /\ ResultShown') =>
              /\ designImage' = designImage
              /\ implImage' = implImage ]_vars

\* the part of C28 about a missing image
C28_SuccessHasImages == ResultShown => designImage # <<>> /\ implImage # <<>>

\* what the remove handlers do keep: removing an image clears a result that is there
C28_RemoveClearsResult ==
    [][ (result # <<>> /\ ((designImage # <<>> /\ designImage' = <<>>)
                            \/ (implImage # <<>> /\ implImage' = <<>>)))
            => result' = <<>> /\ status' = "IDLE" /\ selectedIssueIndex' = <<>> ]_vars

-----------------------------------------------------------------------------
(* Termination of the analysis call *)

\* the awaits of one call all settle: the two compressImage promises resolve in
\* onload or onerror (geminiService.ts:256-295), and every request is taken to settle
SpecCallFair ==
    /\ SpecCall
    /\ WF_vars(Compressed) /\ WF_vars(ExtractionSettled) /\ WF_vars(AnalysisSettled)

CallEnded == pc \in {"resolved", "rejected"}

\* the analysis requests are for the places 1, 2, ... of the list of valid names, one
\* request a place, and the call, once ended, has a result or an error
BoundedChain ==
    /\ Len(AnalysisAttempts) <= Len(validModels)
    /\ \A k \in 1..Len(AnalysisAttempts) :
          /\ AnalysisAttempts[k].tier = k
          /\ AnalysisAttempts[k].model = validModels[k]
    /\ pc = "resolved" => outcome.kind = "result"
    /\ pc = "rejected" => outcome.kind = "error"
    /\ ~CallEnded => outcome = Pending

\* the outcome of a call is set once
OutcomeSetOnce == (outcome # Pending) => (outcome' = outcome)

\* C29: a call that was started ends, its requests settling; with N valid names it
\* makes at most N analysis requests, one for a place of the list and none twice; it
\* ends with a result or with one error, which nothing changes afterwards
C29_CallTerminates ==
    /\ []BoundedChain
    /\ [][OutcomeSetOnce]_vars
    /\ (pc # "idle") ~> CallEnded

\* two valid names, both requests failed, the call ended with the error
C29_Witness ==
    /\ pc = "rejected"
    /\ Len(validModels) = 2
    /\ Len(AnalysisAttempts) = 2
    /\ \A k \in 1..2 : AnalysisAttempts[k].state = "failed"
    /\ outcome.kind = "error"
    /\ outcome.message # MsgNoValidModels

-----------------------------------------------------------------------------
(* The ignore flag *)

\* the places of the issues whose ignore flag differs between this state and the next
Flipped == {k \in 1..Len(Issues) : Ignored(result'[1].issues[k]) # Ignored(Issues[k])}

\* this step is a toggleIssueIgnore: the result stays and some flag flips
ToggleStep ==
    /\ result # <<>> /\ result' # <<>>
    /\ Len(result'[1].issues) = Len(Issues)
    /\ Flipped # {}

\* C30: toggleIssueIgnore(i) flips the flag of issue i and changes nothing else of the
\* result; the selection is cleared when issue i was the selected one and is ignored
\* now, and is left as it was in every other case
C30_ToggleFlipsOneFlag ==
    [][ ToggleStep =>
          /\ Cardinality(Flipped) = 1
          /\ [result'[1] EXCEPT !.issues = Issues] = result[1]
          /\ \A k \in 1..Len(Issues) :
                [result'[1].issues[k] EXCEPT !.isIgnored = Issues[k].isIgnored] = Issues[k]
          /\ \A k \in Flipped :
                IF selectedIssueIndex = <<k - 1>> /\ Ignored(result'[1].issues[k])
                THEN selectedIssueIndex' = <<>>
                ELSE selectedIssueIndex' = selectedIssueIndex ]_vars

\* the first issue is ignored and nothing is selected, the second one was ignored and
\* is not any more and is the selected one
C30_Witness ==
    /\ result # <<>>
    /\ Len(Issues) >= 2
    /\ Issues[1].isIgnored = <<TRUE>>
    /\ Issues[2].isIgnored = <<FALSE>>
    /\ selectedIssueIndex = <<1>>

====
